---- MODULE Spec2Model ----
(***************************************************************************)
(* A model of the Shopify -> Bloomreach catalog pipeline:                  *)
(*   src/job/shopify_products.py     graph reconstruction                  *)
(*   src/job/bloomreach_products.py  key normaliser, flattener, deriver    *)
(*                                                                         *)
(* Text is a sequence of one-character strings.  A Python dict is an       *)
(* insertion-ordered sequence of <<key, value>> pairs with unique keys.    *)
(* A JSON value is a tagged record: [t |-> "null"], [t |-> "str", v |-> s],*)
(* [t |-> "int"|"float"|"bool"|"list"|"dict", v |-> ...].  A float is held *)
(* as its number of hundredths.                                            *)
(***************************************************************************)
EXTENDS Integers, Sequences, FiniteSets, TLC

VARIABLES
  \* normalize_key applied once and twice to a key
  nk_key, nk_once, nk_twice, nk_pc,
  \* flatten_dict applied to an attribute tree
  fd_d, fd_out, fd_pc,
  \* create_product applied to a transformed product
  cp_product, cp_out, cp_pc,
  \* parse_shopify_objects: the input lines, the two indexes, the cursor of
  \* each pass, the output list and the position of the call
  stream, pos, objects, parent_to_children, kpos, products, pc,
  \* bloomreach_generics.create_product applied to a reconstructed product:
  \* the product, the two identifier arguments, the result
  gen_product, gen_pid, gen_vid, gen_out, gen_pc,
  \* one line of bloomreach_products.create_products: the product of the
  \* line, the market data, the market and language arguments, the result
  mk_product, mk_market_data, mk_market, mk_language, mk_out, mk_pc,
  \* bloomreach_generics.create_products_iteratively: the lines of the input
  \* file, the cursor, the records written, the count
  it_lines, it_pos, it_written, it_count, it_pc,
  \* load_market_data: the lines of the market file and the result
  lm_lines, lm_out, lm_pc,
  \* bloomreach_products.main: the lines of the products file, the market
  \* file or none, the market data, the records written
  bm_products, bm_market_file, bm_market_data, bm_written, bm_pc,
  \* graphql.get_shopify_jsonl_fp: the arguments, the market cache file,
  \* the context of the poll under way, the last call of a polled function,
  \* the number of polls that returned False, the job ids, the two files
  \* written, what the run did with the market data
  bk_args, bk_cache, bk_context, bk_call, bk_polls, bk_jobs, bk_files,
  bk_events, bk_pc

normVars  == <<nk_key, nk_once, nk_twice, nk_pc>>
flatVars  == <<fd_d, fd_out, fd_pc>>
prodVars  == <<cp_product, cp_out, cp_pc>>
parseVars == <<stream, pos, objects, parent_to_children, kpos, products, pc>>
genVars   == <<gen_product, gen_pid, gen_vid, gen_out, gen_pc>>
mergeVars == <<mk_product, mk_market_data, mk_market, mk_language, mk_out, mk_pc>>
coreVars  == <<normVars, flatVars, prodVars, parseVars>>
iterVars  == <<it_lines, it_pos, it_written, it_count, it_pc>>
loadVars  == <<lm_lines, lm_out, lm_pc>>
mainVars  == <<bm_products, bm_market_file, bm_market_data, bm_written, bm_pc>>
bulkVars  == <<bk_args, bk_cache, bk_context, bk_call, bk_polls, bk_jobs, bk_files,
               bk_events, bk_pc>>
lateVars  == <<iterVars, loadVars, mainVars, bulkVars>>
restVars  == <<genVars, mergeVars, lateVars>>
vars      == <<coreVars, restVars>>

\* The value of every variable of a component the specification at hand does
\* not run.
Idle == "idle"

NormIdle  == nk_key = Idle /\ nk_once = Idle /\ nk_twice = Idle /\ nk_pc = Idle
FlatIdle  == fd_d = Idle /\ fd_out = Idle /\ fd_pc = Idle
ProdIdle  == cp_product = Idle /\ cp_out = Idle /\ cp_pc = Idle
ParseIdle == /\ stream = Idle /\ pos = Idle /\ objects = Idle
             /\ parent_to_children = Idle /\ kpos = Idle
             /\ products = Idle /\ pc = Idle
GenIdle   == /\ gen_product = Idle /\ gen_pid = Idle /\ gen_vid = Idle
             /\ gen_out = Idle /\ gen_pc = Idle
MergeIdle == /\ mk_product = Idle /\ mk_market_data = Idle /\ mk_market = Idle
             /\ mk_language = Idle /\ mk_out = Idle /\ mk_pc = Idle
CoreIdle  == NormIdle /\ FlatIdle /\ ProdIdle /\ ParseIdle
IterIdle  == /\ it_lines = Idle /\ it_pos = Idle /\ it_written = Idle
             /\ it_count = Idle /\ it_pc = Idle
LoadIdle  == lm_lines = Idle /\ lm_out = Idle /\ lm_pc = Idle
MainIdle  == /\ bm_products = Idle /\ bm_market_file = Idle /\ bm_market_data = Idle
             /\ bm_written = Idle /\ bm_pc = Idle
BulkIdle  == /\ bk_args = Idle /\ bk_cache = Idle /\ bk_context = Idle
             /\ bk_call = Idle /\ bk_polls = Idle /\ bk_jobs = Idle
             /\ bk_files = Idle /\ bk_events = Idle /\ bk_pc = Idle
LateIdle  == IterIdle /\ LoadIdle /\ MainIdle /\ BulkIdle
RestIdle  == GenIdle /\ MergeIdle /\ LateIdle

(***************************************************************************)
(* Text                                                                    *)
(***************************************************************************)
Letters    == {"a", "b", "c", "d", "e", "f", "g", "h", "i", "j", "k", "l", "m",
               "n", "o", "p", "q", "r", "s", "t", "u", "v", "w", "x", "y", "z",
               "A", "B", "C", "D", "E", "F", "G", "H", "I", "J", "K", "L", "M",
               "N", "O", "P", "Q", "R", "S", "T", "U", "V", "W", "X", "Y", "Z"}
Digits     == {"0", "1", "2", "3", "4", "5", "6", "7", "8", "9"}
\* the ASCII characters the pattern \s matches
Whitespace == {" ", "\t", "\n"}

RECURSIVE Concat(_)
Concat(ss) == IF ss = <<>> THEN <<>> ELSE Head(ss) \o Concat(Tail(ss))

\* sub in s (Python's substring test)
Contains(s, sub) ==
  \E i \in 0..(Len(s) - Len(sub)) : SubSeq(s, i + 1, i + Len(sub)) = sub

\* s.strip(c)
RECURSIVE LStrip(_, _)
LStrip(s, cs) == IF s # <<>> /\ Head(s) \in cs THEN LStrip(Tail(s), cs) ELSE s
RECURSIVE RStrip(_, _)
RStrip(s, cs) ==
  IF s # <<>> /\ s[Len(s)] \in cs THEN RStrip(SubSeq(s, 1, Len(s) - 1), cs) ELSE s
Strip(s, cs) == RStrip(LStrip(s, cs), cs)

\* re.sub(r'_+', '_', s)
RECURSIVE CollapseUnderscores(_)
CollapseUnderscores(s) ==
  IF Len(s) < 2 THEN s
  ELSE IF s[1] = "_" /\ s[2] = "_" THEN CollapseUnderscores(Tail(s))
  ELSE <<s[1]>> \o CollapseUnderscores(Tail(s))

(***************************************************************************)
(* normalize_key                                                           *)
(***************************************************************************)
\* unicodedata.normalize('NFKD', c).encode('ASCII', 'ignore'): an accented
\* letter keeps its base letter, a compatibility character its ASCII
\* expansion, and a character with no ASCII decomposition is dropped.
NFKDAscii(c) ==
  CASE c = "é" -> <<"e">>
    [] c = "²" -> <<"2">>
    [] c = "ß" -> <<>>
    [] OTHER   -> <<c>>

Deaccentize(key) == Concat([i \in 1..Len(key) |-> NFKDAscii(key[i])])

\* the characters the pattern [^a-zA-Z0-9\s] leaves alone
AlnumOrSpace == Letters \cup Digits \cup Whitespace

\* re.sub(r'[^a-zA-Z0-9\s]', '_', s)
ReplaceNonAlnum(s) ==
  [i \in 1..Len(s) |-> IF s[i] \in AlnumOrSpace THEN s[i] ELSE "_"]

\* s.replace(' ', '_')
ReplaceSpaces(s) == [i \in 1..Len(s) |-> IF s[i] = " " THEN "_" ELSE s[i]]

Fallback == <<"a", "t", "t", "r", "i", "b", "u", "t", "e">>

PrependIfDigit(s) == IF s # <<>> /\ s[1] \in Digits THEN <<"_">> \o s ELSE s

\* lines 47-48
OrFallback(s) == IF s = <<>> THEN Fallback ELSE s

\* normalize_key with the collapse of underscore runs done before the spaces
\* are replaced
normalize_key_collapse_first(key) ==
  OrFallback(PrependIfDigit(Strip(ReplaceSpaces(CollapseUnderscores(
    ReplaceNonAlnum(Deaccentize(key)))), {"_"})))

normalize_key(key) ==
  OrFallback(PrependIfDigit(Strip(CollapseUnderscores(ReplaceSpaces(
    ReplaceNonAlnum(Deaccentize(key)))), {"_"})))

(***************************************************************************)
(* JSON values and Python dicts                                            *)
(***************************************************************************)
VNull     == [t |-> "null"]
VStr(s)   == [t |-> "str", v |-> s]
VInt(n)   == [t |-> "int", v |-> n]
VFloat(h) == [t |-> "float", v |-> h]
VBool(b)  == [t |-> "bool", v |-> b]
VList(l)  == [t |-> "list", v |-> l]
VDict(d)  == [t |-> "dict", v |-> d]

\* k in d
DictHas(d, k) == \E i \in 1..Len(d) : d[i][1] = k
\* d[k]
DictGet(d, k) == d[CHOOSE i \in 1..Len(d) : d[i][1] = k][2]
\* d[k] = v, with the dict assigned after every key has been moved to the end
\* on a rewrite
DictSetMoveToEnd(d, k, v) ==
  Append(SelectSeq(d, LAMBDA e : e[1] # k), <<k, v>>)
\* d[k] = v: a key already present keeps its position
DictSet(d, k, v) ==
  IF DictHas(d, k)
  THEN [i \in 1..Len(d) |-> IF d[i][1] = k THEN <<k, v>> ELSE d[i]]
  ELSE Append(d, <<k, v>>)
\* del d[k]
DictDel(d, k) == SelectSeq(d, LAMBDA e : e[1] # k)
\* dict(items)
RECURSIVE DictOf(_)
DictOf(items) ==
  IF items = <<>> THEN <<>>
  ELSE LET n == Len(items)
       IN  DictSet(DictOf(SubSeq(items, 1, n - 1)), items[n][1], items[n][2])
DictKeys(d) == {d[i][1] : i \in 1..Len(d)}

\* bool(v)
Truthy(v) ==
  CASE v.t = "null"  -> FALSE
    [] v.t = "bool"  -> v.v
    [] v.t = "int"   -> v.v # 0
    [] v.t = "float" -> v.v # 0
    [] OTHER         -> v.v # <<>>

\* is_empty_value without the strip() of a text
is_empty_value_no_strip(value) ==
  \/ value.t = "null"
  \/ value.t = "str" /\ value.v = <<>>
  \/ value.t \in {"list", "dict"} /\ value.v = <<>>

is_empty_value(value) ==
  \/ value.t = "null"
  \/ value.t = "str" /\ Strip(value.v, Whitespace) = <<>>
  \/ value.t \in {"list", "dict"} /\ value.v = <<>>

(***************************************************************************)
(* convert_to_float                                                        *)
(***************************************************************************)
DigitVal(c) == CHOOSE n \in 0..9 : ToString(n) = c

RECURSIVE DigitsVal(_)
DigitsVal(s) ==
  IF s = <<>> THEN 0 ELSE 10 * DigitsVal(SubSeq(s, 1, Len(s) - 1)) + DigitVal(s[Len(s)])

AllDigits(s) == s # <<>> /\ \A i \in 1..Len(s) : s[i] \in Digits

\* The texts float() is modelled on: an unsigned decimal with at most two
\* decimals parses to its value, a text with a character that is no digit, no
\* sign, no point, no exponent and no whitespace raises ValueError, and so
\* does the empty text.  Every text of the model is of one of these shapes.
IsDecimal(s) ==
  \E p \in 1..(Len(s) + 1) :
    /\ AllDigits(SubSeq(s, 1, p - 1))
    /\ \/ p = Len(s) + 1
       \/ /\ s[p] = "."
          /\ Len(s) - p \in 1..2
          /\ AllDigits(SubSeq(s, p + 1, Len(s)))

\* float(s) in hundredths, for IsDecimal(s)
DecimalValue(s) ==
  LET p    == CHOOSE q \in 1..(Len(s) + 1) : q = Len(s) + 1 \/ s[q] = "."
      frac == SubSeq(s, p + 1, Len(s))
  IN  100 * DigitsVal(SubSeq(s, 1, p - 1))
        + (IF Len(frac) = 1 THEN 10 * DigitsVal(frac) ELSE DigitsVal(frac))

convert_to_float(value) ==
  CASE value.t = "null"  -> VNull
    [] value.t = "str"   -> IF IsDecimal(value.v) THEN VFloat(DecimalValue(value.v))
                            ELSE VNull
    [] value.t = "int"   -> VFloat(100 * value.v)
    [] value.t = "float" -> value
    [] value.t = "bool"  -> VFloat(IF value.v THEN 100 ELSE 0)
    [] OTHER             -> VNull

(***************************************************************************)
(* flatten_dict                                                            *)
(***************************************************************************)
amount == <<"a", "m", "o", "u", "n", "t">>
price  == <<"p", "r", "i", "c", "e">>

\* GroupItem with the empty field values kept
RECURSIVE GroupItemKeepEmpty(_, _)
GroupItemKeepEmpty(grouped, fields) ==
  IF fields = <<>> THEN grouped
  ELSE LET f    == Head(fields)
           next == DictSet(grouped, f[1],
                           (IF DictHas(grouped, f[1]) THEN DictGet(grouped, f[1])
                            ELSE <<>>) \o <<f[2]>>)
       IN  GroupItemKeepEmpty(next, Tail(fields))

\* grouped_values after the fields of one array element have been added
RECURSIVE GroupItem(_, _)
GroupItem(grouped, fields) ==
  IF fields = <<>> THEN grouped
  ELSE LET f    == Head(fields)
           next == IF is_empty_value(f[2]) THEN grouped
                   ELSE DictSet(grouped, f[1],
                                (IF DictHas(grouped, f[1]) THEN DictGet(grouped, f[1])
                                 ELSE <<>>) \o <<f[2]>>)
       IN  GroupItem(next, Tail(fields))

\* grouped_values after the loop over the array v
RECURSIVE GroupValues(_, _)
GroupValues(grouped, v) ==
  IF v = <<>> THEN grouped
  ELSE GroupValues(IF Head(v).t = "dict" THEN GroupItem(grouped, Head(v).v)
                   ELSE grouped,
                   Tail(v))

\* lines 101-105: the items of the grouped values of an array of maps
NormalizedGroups(new_key, grouped) ==
  [i \in 1..Len(grouped) |->
     <<normalize_key(new_key \o <<"_">> \o grouped[i][1]), VList(grouped[i][2])>>]

\* the items of an array of maps
GroupedItems(new_key, v) == NormalizedGroups(new_key, GroupValues(<<>>, v))

NewKey(parent_key, sep, k) ==
  normalize_key(IF parent_key # <<>> THEN parent_key \o sep \o k ELSE k)

\* lines 89-90: the non-empty items of a flattened nested map
NestedItems(kept) ==
  [i \in 1..Len(kept) |-> <<normalize_key(kept[i][1]), kept[i][2]>>]

\* lines 113-115
ScalarItem(new_key, w) == IF ~is_empty_value(w) THEN <<<<new_key, w>>>> ELSE <<>>

\* the items the value v adds under new_key
RECURSIVE flatten_dict(_, _, _)
FlattenValue(new_key, v, sep) ==
  CASE v.t = "dict" ->
         NestedItems(SelectSeq(flatten_dict(v.v, new_key, sep),
                               LAMBDA e : ~is_empty_value(e[2])))
    [] v.t = "list" ->
         IF Len(v.v) > 0 /\ v.v[1].t = "dict" THEN GroupedItems(new_key, v.v)
         ELSE IF v.v # <<>> THEN <<<<new_key, v>>>>
         ELSE <<>>
    [] OTHER ->
         ScalarItem(new_key,
                    IF v.t = "str" /\ (Contains(new_key, amount) \/ Contains(new_key, price))
                    THEN convert_to_float(v) ELSE v)

\* the items one (k, v) of d adds
FlattenItem(k, v, parent_key, sep) == FlattenValue(NewKey(parent_key, sep, k), v, sep)

flatten_dict(d, parent_key, sep) ==
  DictOf(Concat([i \in 1..Len(d) |-> FlattenItem(d[i][1], d[i][2], parent_key, sep)]))

\* line 121: the kept items with their keys normalised
CleanItems(kept) ==
  DictOf([i \in 1..Len(kept) |-> <<normalize_key(kept[i][1]), kept[i][2]>>])

clean_attributes(attrs) ==
  CleanItems(SelectSeq(attrs, LAMBDA e : ~is_empty_value(e[2])))

(***************************************************************************)
(* The key normaliser run on every key of a bounded alphabet               *)
(***************************************************************************)
MaxKeyLen == 4
NormAlphabet == {"a", "7", "_", ".", " ", "\t", "\n", "é", "ß"}

Texts(alphabet, n) == UNION {[1..k -> alphabet] : k \in 0..n}

NormInit ==
  /\ nk_key \in Texts(NormAlphabet, MaxKeyLen)
  /\ nk_once = <<>>
  /\ nk_twice = <<>>
  /\ nk_pc = "start"
  /\ FlatIdle /\ ProdIdle /\ ParseIdle /\ RestIdle

NormalizeOnce ==
  /\ nk_pc = "start"
  /\ nk_once' = normalize_key(nk_key)
  /\ nk_pc' = "once"
  /\ UNCHANGED <<nk_key, nk_twice, flatVars, prodVars, parseVars, restVars>>

NormalizeTwice ==
  /\ nk_pc = "once"
  /\ nk_twice' = normalize_key(nk_once)
  /\ nk_pc' = "twice"
  /\ UNCHANGED <<nk_key, nk_once, flatVars, prodVars, parseVars, restVars>>

NormNext == NormalizeOnce \/ NormalizeTwice

SpecNorm == NormInit /\ [][NormNext]_vars

\* C4: normalize_key is idempotent: normalising the result of normalize_key
\* again gives the same key.
C4_Idempotent == nk_pc = "twice" => nk_twice = nk_once

\* an input of each kind the claim names has been normalised twice: one that
\* starts with a digit, one made of separators only, one holding a tab
C4_Witness ==
  /\ nk_pc = "twice"
  /\ nk_key \in {<<"7", "a">>, <<".", "_", " ">>, <<"a", "\t", "a">>}

AllowedOut == Letters \cup Digits \cup {"_"}

\* C5: the output of normalize_key holds only ASCII letters, digits and "_",
\* has no two consecutive underscores, does not start with a digit and is
\* never empty; every whitespace run is replaced by "_".
C5_OutputAlphabet ==
  nk_pc # "start" =>
    /\ nk_once # <<>>
    /\ \A i \in 1..Len(nk_once) : nk_once[i] \in AllowedOut
    /\ \A i \in 1..(Len(nk_once) - 1) : ~(nk_once[i] = "_" /\ nk_once[i + 1] = "_")
    /\ nk_once[1] \notin Digits

(***************************************************************************)
(* The flattener run on bounded attribute trees                            *)
(***************************************************************************)
MaxEntries == 2
MaxArray   == 3

\* all dicts of at most n entries with keys of ks and values of vs
RECURSIVE Dicts(_, _, _)
Dicts(ks, vs, n) ==
  IF n = 0 THEN {<<>>}
  ELSE LET smaller == Dicts(ks, vs, n - 1)
       IN  smaller \cup
           {Append(d, <<k, v>>) : d \in {x \in smaller : Len(x) = n - 1},
                                  k \in ks, v \in vs}

ka     == <<"a">>
kb     == <<"b">>
kadot  == <<"a", ".">>
kk     == <<"k">>
tx     == VStr(<<"x">>)
ty     == VStr(<<"y">>)
tblank == VStr(<<" ">>)
tempty == VStr(<<>>)

TreeKeys == {ka, kadot, price}

TreeValues ==
  { VNull, tempty, tblank, tx, VStr(<<"8", ".", "5">>), VInt(0), VBool(FALSE),
    VList(<<>>), VList(<<tempty, VNull>>),
    VList(<<VDict(<<>>)>>),
    VList(<<VDict(<<<<ka, tx>>>>), VDict(<<<<ka, tempty>>, <<kb, ty>>>>)>>),
    VDict(<<>>), VDict(<<<<ka, VNull>>>>), VDict(<<<<ka, VDict(<<>>)>>>>),
    VDict(<<<<price, VStr(<<"n", "o">>)>>>>),
    VDict(<<<<ka, tx>>, <<kadot, VDict(<<<<kb, VList(<<>>)>>, <<price, VStr(<<"7">>)>>>>)>>>>) }

UniqueKeys(d) == \A i, j \in 1..Len(d) : d[i][1] = d[j][1] => i = j

Trees == {d \in Dicts(TreeKeys, TreeValues, MaxEntries) : UniqueKeys(d)}

\* the elements of the arrays of maps: maps over three field names, two of
\* which normalise to the same key, and one element that is no map
Elements ==
  { VDict(<<>>),
    VDict(<<<<ka, tx>>>>),
    VDict(<<<<ka, VNull>>>>),
    VDict(<<<<kb, tblank>>>>),
    VDict(<<<<kb, ty>>, <<ka, ty>>>>),
    VDict(<<<<kadot, tx>>>>),
    VDict(<<<<ka, tempty>>, <<kadot, ty>>>>),
    tx }

Arrays ==
  {a \in UNION {[1..n -> Elements] : n \in 1..MaxArray} : a[1].t = "dict"}

FlatInit ==
  /\ fd_d \in Trees \cup {<<<<kk, VList(a)>>>> : a \in Arrays}
  /\ fd_out = <<>>
  /\ fd_pc = "start"
  /\ NormIdle /\ ProdIdle /\ ParseIdle /\ RestIdle

Flatten ==
  /\ fd_pc = "start"
  /\ fd_out' = flatten_dict(fd_d, <<>>, <<"_">>)
  /\ fd_pc' = "done"
  /\ UNCHANGED <<fd_d, normVars, prodVars, parseVars, restVars>>

FlatNext == Flatten

SpecFlat == FlatInit /\ [][FlatNext]_vars

\* an empty value: null, empty or whitespace-only text, empty array, empty map
EmptyValue(v) ==
  \/ v = VNull
  \/ v.t = "str" /\ \A i \in 1..Len(v.v) : v.v[i] \in Whitespace
  \/ v.t \in {"list", "dict"} /\ Len(v.v) = 0

\* a subtree with nothing in it: a map whose values are all empty values or
\* subtrees with nothing in them
RECURSIVE EmptySubtree(_)
EmptySubtree(v) ==
  /\ v.t = "dict"
  /\ \A i \in 1..Len(v.v) : EmptyValue(v.v[i][2]) \/ EmptySubtree(v.v[i][2])

\* C6: the map flatten_dict returns holds no empty value, every key of it is
\* normalizer-clean, and an empty nested subtree contributes no key.
C6_NoEmptyCleanKeys ==
  fd_pc = "done" =>
    /\ \A i \in 1..Len(fd_out) :
         /\ ~EmptyValue(fd_out[i][2])
         /\ normalize_key(fd_out[i][1]) = fd_out[i][1]
    /\ (\A i \in 1..Len(fd_d) : EmptySubtree(fd_d[i][2])) => fd_out = <<>>

\* a tree with a whitespace-only text, an empty subtree and a kept value has
\* been flattened
C6_Witness ==
  /\ fd_pc = "done"
  /\ Len(fd_d) = 2
  /\ fd_d[1][2] = tblank
  /\ fd_d[2][2] = VDict(<<<<ka, tx>>, <<kadot, VDict(<<<<kb, VList(<<>>)>>, <<price, VStr(<<"7">>)>>>>)>>>>)
  /\ Len(fd_out) = 2

\* flatten_dict was given one key holding an array whose first element is a map
ArrayInput ==
  /\ fd_pc = "done"
  /\ Len(fd_d) = 1
  /\ fd_d[1][2].t = "list"
  /\ Len(fd_d[1][2].v) > 0
  /\ fd_d[1][2].v[1].t = "dict"

\* the field names observed across the map elements of an array
FieldNames(arr) ==
  UNION {DictKeys(arr[i].v) : i \in {j \in 1..Len(arr) : arr[j].t = "dict"}}

\* the non-empty values of field f, in element order
FieldValues(arr, f) ==
  Concat([i \in 1..Len(arr) |->
            IF arr[i].t = "dict" /\ DictHas(arr[i].v, f) /\ ~EmptyValue(DictGet(arr[i].v, f))
            THEN <<DictGet(arr[i].v, f)>> ELSE <<>>])

\* the output key of field f of the array under key k
FieldKey(k, f) == normalize_key(k \o <<"_">> \o f)

K_sp_handle == <<"s", "p", ".", "h", "a", "n", "d", "l", "e">>
K_sp_status == <<"s", "p", ".", "s", "t", "a", "t", "u", "s">>
K_sp_totalInventory == <<"s", "p", ".", "t", "o", "t", "a", "l", "I", "n", "v", "e", "n", "t", "o", "r", "y">>
K_sp_featuredImage_url == <<"s", "p", ".", "f", "e", "a", "t", "u", "r", "e", "d", "I", "m", "a", "g", "e", ".", "u", "r", "l">>
K_sp_vendor == <<"s", "p", ".", "v", "e", "n", "d", "o", "r">>
K_sp_descriptionHtml == <<"s", "p", ".", "d", "e", "s", "c", "r", "i", "p", "t", "i", "o", "n", "H", "t", "m", "l">>
K_sp_title == <<"s", "p", ".", "t", "i", "t", "l", "e">>
K_sv_sku == <<"s", "v", ".", "s", "k", "u">>
K_sv_id == <<"s", "v", ".", "i", "d">>
K_sv_compareAtPrice == <<"s", "v", ".", "c", "o", "m", "p", "a", "r", "e", "A", "t", "P", "r", "i", "c", "e">>
K_sv_price == <<"s", "v", ".", "p", "r", "i", "c", "e">>
K_sv_image_url == <<"s", "v", ".", "i", "m", "a", "g", "e", ".", "u", "r", "l">>
K_sv_availableForSale == <<"s", "v", ".", "a", "v", "a", "i", "l", "a", "b", "l", "e", "F", "o", "r", "S", "a", "l", "e">>
K_url == <<"u", "r", "l">>
K_availability == <<"a", "v", "a", "i", "l", "a", "b", "i", "l", "i", "t", "y">>
K_thumb_image == <<"t", "h", "u", "m", "b", "_", "i", "m", "a", "g", "e">>
K_brand == <<"b", "r", "a", "n", "d">>
K_description == <<"d", "e", "s", "c", "r", "i", "p", "t", "i", "o", "n">>
K_title == <<"t", "i", "t", "l", "e">>
K_sale_price == <<"s", "a", "l", "e", "_", "p", "r", "i", "c", "e">>
K_price_range_max == <<"p", "r", "i", "c", "e", "_", "r", "a", "n", "g", "e", "_", "m", "a", "x">>
K_ACTIVE == <<"A", "C", "T", "I", "V", "E">>
K_gid_prefix == <<"g", "i", "d", ":", "/", "/">>

\* "https://{shopify_url}/products/" for the shop host "s"
UrlPrefix == <<"h", "t", "t", "p", "s", ":", "/", "/", "s", "/",
               "p", "r", "o", "d", "u", "c", "t", "s", "/">>

\* gid.split('/')[-1]
RECURSIVE LastSegment(_)
LastSegment(s) ==
  IF \E i \in 1..Len(s) : s[i] = "/"
  THEN LastSegment(SubSeq(s, (CHOOSE i \in 1..Len(s) : s[i] = "/") + 1, Len(s)))
  ELSE s

\* extract_id_from_gid returning the identifier whole
extract_id_from_gid_whole(gid) == gid

extract_id_from_gid(gid) ==
  IF Truthy(gid) /\ gid.t = "str" /\ Contains(gid.v, K_gid_prefix)
  THEN VStr(LastSegment(gid.v))
  ELSE gid

\* d.get(k)
DictGetOrNull(d, k) == IF DictHas(d, k) THEN DictGet(d, k) ELSE VNull

\* lines 197-203: the statements that raise on the input attributes
RootRaises(in_pa) ==
  \/ ~DictHas(in_pa, K_sp_handle)
  \/ DictGet(in_pa, K_sp_handle).t # "str"
  \/ ~DictHas(in_pa, K_sp_status)
  \/ /\ DictGet(in_pa, K_sp_status) = VStr(K_ACTIVE)
     /\ DictHas(in_pa, K_sp_totalInventory)
     /\ DictGet(in_pa, K_sp_totalInventory).t \notin {"int", "float", "bool"}

\* lines 199-203 with an inventory of zero counted as stock
RootAvailabilityNonNegative(in_pa) ==
  /\ DictGet(in_pa, K_sp_status) = VStr(K_ACTIVE)
  /\ DictHas(in_pa, K_sp_totalInventory)
  /\ convert_to_float(DictGet(in_pa, K_sp_totalInventory)).v >= 0

\* lines 199-203
RootAvailability(in_pa) ==
  /\ DictGet(in_pa, K_sp_status) = VStr(K_ACTIVE)
  /\ DictHas(in_pa, K_sp_totalInventory)
  /\ convert_to_float(DictGet(in_pa, K_sp_totalInventory)).v > 0

\* lines 206, 243, 244, 262, 267: the normalised keys create_product reads
featured_image_key == normalize_key(K_sp_featuredImage_url)
compare_price_key  == normalize_key(K_sv_compareAtPrice)
price_key          == normalize_key(K_sv_price)
image_url_key      == normalize_key(K_sv_image_url)
available_key      == normalize_key(K_sv_availableForSale)

\* lines 205-208 and 261-264
WithThumb(attrs, image_key) ==
  IF DictHas(attrs, image_key)
  THEN DictSet(attrs, K_thumb_image, DictGet(attrs, image_key))
  ELSE attrs

\* PRODUCT_MAPPINGS: source, destination, and whether the value is stripped
PRODUCT_MAPPINGS ==
  << <<K_sp_vendor, K_brand, FALSE>>,
     <<K_sp_descriptionHtml, K_description, TRUE>>,
     <<K_sp_title, K_title, FALSE>> >>

\* lines 213 and 217: the mappings with both keys normalised
NormalizedMappings ==
  [i \in 1..Len(PRODUCT_MAPPINGS) |->
     <<normalize_key(PRODUCT_MAPPINGS[i][1]), normalize_key(PRODUCT_MAPPINGS[i][2]),
       PRODUCT_MAPPINGS[i][3]>>]

\* lines 211-217; x.strip() raises on a value that is no text
MappingRaises(out_pa) ==
  \E i \in 1..Len(NormalizedMappings) :
    /\ NormalizedMappings[i][3]
    /\ DictHas(out_pa, NormalizedMappings[i][1])
    /\ DictGet(out_pa, NormalizedMappings[i][1]).t # "str"

RECURSIVE WithMappings(_, _)
WithMappings(out_pa, mappings) ==
  IF mappings = <<>> THEN out_pa
  ELSE LET mp     == Head(mappings)
           source == mp[1]
           value  == IF mp[3] THEN VStr(Strip(DictGet(out_pa, source).v, Whitespace))
                     ELSE DictGet(out_pa, source)
           next   == IF DictHas(out_pa, source) /\ ~is_empty_value(value)
                     THEN DictSet(out_pa, mp[2], value)
                     ELSE out_pa
       IN  WithMappings(next, Tail(mappings))

\* lines 224-228
VariantKey(variant_attrs) ==
  IF DictHas(variant_attrs, K_sv_sku) /\ Truthy(DictGet(variant_attrs, K_sv_sku))
  THEN DictGet(variant_attrs, K_sv_sku)
  ELSE extract_id_from_gid(DictGetOrNull(variant_attrs, K_sv_id))

\* line 248: variant_attrs[price_key] of a variant with no flattened price
PriceRaises(variant_attrs) ==
  /\ DictHas(variant_attrs, compare_price_key)
  /\ Truthy(DictGet(variant_attrs, compare_price_key))
  /\ ~DictHas(variant_attrs, price_key)

\* lines 250-255
SetPrices(variant_attrs, compare_price, variant_price) ==
  IF Truthy(compare_price) /\ Truthy(variant_price)
  THEN IF compare_price = variant_price
       THEN DictSet(variant_attrs, price, compare_price)
       ELSE DictSet(DictSet(variant_attrs, price, compare_price),
                    K_sale_price, variant_price)
  ELSE variant_attrs

\* lines 257-259
SetPrice(variant_attrs, p) ==
  IF Truthy(p) THEN DictSet(variant_attrs, price, p) ELSE variant_attrs

\* lines 243-259
WithPrice(variant_attrs) ==
  IF /\ DictHas(variant_attrs, compare_price_key)
     /\ Truthy(DictGet(variant_attrs, compare_price_key))
  THEN SetPrices(variant_attrs,
                 convert_to_float(DictGet(variant_attrs, compare_price_key)),
                 convert_to_float(DictGet(variant_attrs, price_key)))
  ELSE IF DictHas(variant_attrs, price_key)
  THEN SetPrice(variant_attrs, convert_to_float(DictGet(variant_attrs, price_key)))
  ELSE variant_attrs

\* lines 266-270 with no availability written for a variant not for sale
WithAvailabilityWhenTrue(variant_attrs) ==
  IF DictHas(variant_attrs, available_key) /\ Truthy(DictGet(variant_attrs, available_key))
  THEN DictSet(variant_attrs, K_availability, VBool(TRUE))
  ELSE variant_attrs

\* lines 266-270
WithAvailability(variant_attrs) ==
  DictSet(variant_attrs, K_availability,
          VBool(/\ DictHas(variant_attrs, available_key)
                /\ Truthy(DictGet(variant_attrs, available_key))))

\* lines 272-276
CleanedOr(derived, cleaned) == IF cleaned = <<>> THEN derived ELSE cleaned

\* lines 235-276: the derived attributes of a variant
DeriveVariant(flattened) ==
  WithAvailability(WithThumb(WithPrice(flattened), image_url_key))

Raised == [raised |-> TRUE, d |-> <<>>]

\* lines 235-276 without the skip of lines 232-233
ProcessFlattenedKeepEmpty(processed_variants, variant_key, flattened, derived) ==
  IF variant_key.t \in {"list", "dict"} \/ PriceRaises(flattened) THEN Raised
  ELSE [raised |-> FALSE,
        d |-> DictSet(processed_variants.d, variant_key,
                      CleanedOr(derived, clean_attributes(derived)))]

\* lines 232-276: processed_variants (d) after one variant, or raised
ProcessFlattened(processed_variants, variant_key, flattened, derived) ==
  IF flattened = <<>> THEN processed_variants
  ELSE IF variant_key.t \in {"list", "dict"} \/ PriceRaises(flattened) THEN Raised
  ELSE [raised |-> FALSE,
        d |-> DictSet(processed_variants.d, variant_key,
                      CleanedOr(derived, clean_attributes(derived)))]

ProcessFlat(processed_variants, variant_key, flattened) ==
  ProcessFlattened(processed_variants, variant_key, flattened, DeriveVariant(flattened))

\* lines 222-276: processed_variants after the loop over the variants
RECURSIVE ProcessVariants(_, _)
ProcessVariants(processed_variants, variants) ==
  IF variants = <<>> \/ processed_variants.raised THEN processed_variants
  ELSE ProcessVariants(
         ProcessFlat(processed_variants, VariantKey(Head(variants)[2]),
                     flatten_dict(Head(variants)[2], <<>>, <<"_">>)),
         Tail(variants))

\* lines 283-291 with the first variant price taken as the minimum
RECURSIVE PriceRangeFirstMin(_, _, _)
PriceRangeFirstMin(min_price, max_price, variants) ==
  IF variants = <<>> THEN <<min_price, max_price>>
  ELSE LET variant_price == DictGetOrNull(Head(variants)[2], price)
       IN  IF variant_price # VNull
           THEN PriceRangeFirstMin(
                  IF min_price = VNull THEN variant_price ELSE min_price,
                  IF max_price = VNull \/ variant_price.v > max_price.v
                  THEN variant_price ELSE max_price,
                  Tail(variants))
           ELSE PriceRangeFirstMin(min_price, max_price, Tail(variants))

\* lines 283-291: <<min_price, max_price>> after the loop
RECURSIVE PriceRange(_, _, _)
PriceRange(min_price, max_price, variants) ==
  IF variants = <<>> THEN <<min_price, max_price>>
  ELSE LET variant_price == DictGetOrNull(Head(variants)[2], price)
       IN  IF variant_price # VNull
           THEN PriceRange(
                  IF min_price = VNull \/ variant_price.v < min_price.v
                  THEN variant_price ELSE min_price,
                  IF max_price = VNull \/ variant_price.v > max_price.v
                  THEN variant_price ELSE max_price,
                  Tail(variants))
           ELSE PriceRange(min_price, max_price, Tail(variants))

\* lines 293-296
SetPriceRange(out_pa, min_price, max_price) ==
  IF max_price # VNull /\ max_price # min_price
  THEN DictSet(IF min_price # VNull THEN DictSet(out_pa, price, min_price) ELSE out_pa,
               K_price_range_max, max_price)
  ELSE IF min_price # VNull THEN DictSet(out_pa, price, min_price) ELSE out_pa

SetRange(out_pa, range) == SetPriceRange(out_pa, range[1], range[2])

\* lines 282-296
WithPriceRange(out_pa, variants) == SetRange(out_pa, PriceRange(VNull, VNull, variants))

\* lines 187-208: the root attributes before the mappings
RootAttributes(in_pa) ==
  WithThumb(
    DictSet(DictSet(flatten_dict(in_pa, <<>>, <<"_">>), K_url,
                    VStr(UrlPrefix \o DictGet(in_pa, K_sp_handle).v)),
            K_availability, VBool(RootAvailability(in_pa))),
    featured_image_key)

\* lines 279-301
Emit(product, out_pa, variants) ==
  [raised |-> FALSE, id |-> product.id,
   attributes |-> clean_attributes(WithPriceRange(out_pa, variants)),
   variants |-> variants]

\* lines 220-301
Assemble(product, out_pa, processed) ==
  IF product.variants = <<>>
  THEN [raised |-> FALSE, id |-> product.id,
        attributes |-> clean_attributes(out_pa), variants |-> <<>>]
  ELSE IF processed.raised THEN [raised |-> TRUE]
  ELSE Emit(product, out_pa, SelectSeq(processed.d, LAMBDA e : e[2] # <<>>))

\* lines 210-301
MapAndProcess(product, out_pa) ==
  IF MappingRaises(out_pa) THEN [raised |-> TRUE]
  ELSE Assemble(product, WithMappings(out_pa, NormalizedMappings),
                ProcessVariants([raised |-> FALSE, d |-> <<>>], product.variants))

\* create_product: [raised |-> TRUE], or the record returned
create_product(product) ==
  IF RootRaises(product.attributes) THEN [raised |-> TRUE]
  ELSE MapAndProcess(product, RootAttributes(product.attributes))

(***************************************************************************)
(* The deriver run on bounded products                                     *)
(***************************************************************************)
MaxVariants == 2

t0    == <<"0", ".", "0", "0">>
t8    == <<"8", ".", "0", "0">>
t10   == <<"1", "0", ".", "0", "0">>
tabc  == <<"a", "b", "c">>

\* the values of a price field: text that is no number, numeric text
PriceValues == {VStr(tabc), VStr(t0), VStr(t8)}
\* the values of a compare-at price field: those, a higher price and the
\* empty text
CompareValues == PriceValues \cup {VStr(t10), VStr(<<>>)}

Gid(type, n) ==
  <<"g", "i", "d", ":", "/", "/", "s", "h", "o", "p", "i", "f", "y", "/">> \o type \o <<"/", ToString(n)>>
ProductVariant == <<"P", "r", "o", "d", "u", "c", "t", "V", "a", "r", "i", "a", "n", "t">>

\* the attributes of the i-th variant: an id, a sku, and the two price fields,
\* each present or not
VariantAttrs(i) ==
  { <<<<K_sv_id, VStr(Gid(ProductVariant, i))>>, <<K_sv_sku, VStr(<<"S", ToString(i)>>)>>>>
      \o p \o c :
    p \in {<<>>} \cup {<<<<K_sv_price, v>>>> : v \in PriceValues},
    c \in {<<>>} \cup {<<<<K_sv_compareAtPrice, v>>>> : v \in CompareValues} }

\* the variants maps of up to n variants, keyed by variant id
RECURSIVE VariantMaps(_)
VariantMaps(n) ==
  IF n = 0 THEN {<<>>}
  ELSE LET smaller == VariantMaps(n - 1)
       IN  smaller \cup
           {Append(m, <<VStr(Gid(ProductVariant, n)), a>>) :
              m \in {x \in smaller : Len(x) = n - 1}, a \in VariantAttrs(n)}

RootAttrs ==
  << <<K_sp_handle, VStr(<<"h">>)>>, <<K_sp_status, VStr(K_ACTIVE)>>,
     <<K_sp_totalInventory, VInt(5)>> >>

Products ==
  {[id |-> VStr(<<"1">>), attributes |-> RootAttrs, variants |-> m] :
     m \in VariantMaps(MaxVariants)}

ProdInit ==
  /\ cp_product \in Products
  /\ cp_out = <<>>
  /\ cp_pc = "start"
  /\ NormIdle /\ FlatIdle /\ ParseIdle /\ RestIdle

CreateProductReturns ==
  /\ cp_pc = "start"
  /\ cp_out' = create_product(cp_product)
  /\ ~cp_out'.raised
  /\ cp_pc' = "returned"
  /\ UNCHANGED <<cp_product, normVars, flatVars, parseVars, restVars>>

CreateProductRaises ==
  /\ cp_pc = "start"
  /\ create_product(cp_product).raised
  /\ cp_pc' = "raised"
  /\ UNCHANGED <<cp_product, cp_out, normVars, flatVars, parseVars, restVars>>

ProdNext == CreateProductReturns \/ CreateProductRaises

SpecProd == ProdInit /\ [][ProdNext]_vars

\* the number (in hundredths) a price text of the inputs stands for
IsNumber(v) == v \in {VStr(t0), VStr(t8), VStr(t10)}
NumberOf(v) == CASE v = VStr(t0) -> 0 [] v = VStr(t8) -> 800 [] v = VStr(t10) -> 1000

\* the attributes of the i-th input variant, and those of the output variant
\* of the same sku
InVariant(i) == cp_product.variants[i][2]
Emitted(i)   == DictHas(cp_out.variants, DictGet(InVariant(i), K_sv_sku))
OutVariant(i) == DictGet(cp_out.variants, DictGet(InVariant(i), K_sv_sku))

\* C8: a variant with numeric standard price p and compare-at price c gets
\* price = p and no sale_price when c = p, price = c and sale_price = p when
\* c # p; a variant with only a standard price p gets price = p; for every
\* numeric p and c, zero included.
C8_VariantPricing ==
  cp_pc = "returned" =>
    \A i \in 1..Len(cp_product.variants) :
      LET a == InVariant(i)
          o == OutVariant(i)
      IN  /\ (/\ DictHas(a, K_sv_price) /\ IsNumber(DictGet(a, K_sv_price))
              /\ DictHas(a, K_sv_compareAtPrice) /\ IsNumber(DictGet(a, K_sv_compareAtPrice))) =>
                LET p == NumberOf(DictGet(a, K_sv_price))
                    c == NumberOf(DictGet(a, K_sv_compareAtPrice))
                IN  /\ Emitted(i)
                    /\ DictHas(o, price)
                    /\ c = p => DictGet(o, price) = VFloat(p) /\ ~DictHas(o, K_sale_price)
                    /\ c # p => /\ DictGet(o, price) = VFloat(c)
                                /\ DictHas(o, K_sale_price)
                                /\ DictGet(o, K_sale_price) = VFloat(p)
          /\ (/\ DictHas(a, K_sv_price) /\ IsNumber(DictGet(a, K_sv_price))
              /\ ~DictHas(a, K_sv_compareAtPrice)) =>
                /\ Emitted(i)
                /\ DictHas(o, price)
                /\ DictGet(o, price) = VFloat(NumberOf(DictGet(a, K_sv_price)))

\* C9: a price text that is no number is dropped without raising, and
\* create_product returns the record, with no price and no sale_price for a
\* variant whose standard price is missing or no number, whether or not it
\* has a compare-at price.
C9_UncoerciblePriceDropped ==
  cp_pc # "start" =>
    /\ cp_pc = "returned"
    /\ \A i \in 1..Len(cp_product.variants) :
         LET a == InVariant(i)
             o == OutVariant(i)
         IN  (~DictHas(a, K_sv_price) \/ ~IsNumber(DictGet(a, K_sv_price))) =>
               /\ Emitted(i)
               /\ ~DictHas(o, price_key)
               /\ ~DictHas(o, price)
               /\ ~DictHas(o, K_sale_price)

\* the price attributes of the emitted variants
VariantPrices ==
  {DictGet(cp_out.variants[i][2], price).v :
     i \in {j \in 1..Len(cp_out.variants) : DictHas(cp_out.variants[j][2], price)}}

Lowest(S)  == CHOOSE x \in S : \A y \in S : x <= y
Highest(S) == CHOOSE x \in S : \A y \in S : x >= y

\* C10: when an emitted variant has a price, the root price is the minimum of
\* the emitted variants' prices, price_range_max is their maximum when it
\* differs from the minimum, and is absent when it does not.
C10_PriceRange ==
  (cp_pc = "returned" /\ VariantPrices # {}) =>
    /\ DictHas(cp_out.attributes, price)
    /\ DictGet(cp_out.attributes, price) = VFloat(Lowest(VariantPrices))
    /\ IF Highest(VariantPrices) # Lowest(VariantPrices)
       THEN /\ DictHas(cp_out.attributes, K_price_range_max)
            /\ DictGet(cp_out.attributes, K_price_range_max) = VFloat(Highest(VariantPrices))
       ELSE ~DictHas(cp_out.attributes, K_price_range_max)

\* a product whose second variant is cheaper than its first has been derived,
\* with both ends of the range at the root
C10_Witness ==
  /\ cp_pc = "returned"
  /\ Len(cp_out.variants) = 2
  /\ VariantPrices = {800, 1000}
  /\ DictGet(cp_out.variants[1][2], price) = VFloat(1000)
  /\ DictHas(cp_out.attributes, K_price_range_max)

(***************************************************************************)
(* parse_shopify_objects                                                   *)
(***************************************************************************)
K_id == <<"i", "d">>
K_parentId == <<"_", "_", "p", "a", "r", "e", "n", "t", "I", "d">>
K_translations == <<"t", "r", "a", "n", "s", "l", "a", "t", "i", "o", "n", "s">>
K_locale == <<"l", "o", "c", "a", "l", "e">>
K_key == <<"k", "e", "y">>
K_value == <<"v", "a", "l", "u", "e">>
K_body_html == <<"b", "o", "d", "y", "_", "h", "t", "m", "l">>
K_descriptionHtml == <<"d", "e", "s", "c", "r", "i", "p", "t", "i", "o", "n", "H", "t", "m", "l">>
K_translation_done == <<"t", "r", "a", "n", "s", "l", "a", "t", "i", "o", "n", "_", "d", "o", "n", "e">>
K_collections == <<"c", "o", "l", "l", "e", "c", "t", "i", "o", "n", "s">>
K_variants == <<"v", "a", "r", "i", "a", "n", "t", "s">>
K_metafields == <<"m", "e", "t", "a", "f", "i", "e", "l", "d", "s">>
S_shopify_Collection == <<"/", "s", "h", "o", "p", "i", "f", "y", "/", "C", "o", "l", "l", "e", "c", "t", "i", "o", "n", "/">>
S_Product == <<"/", "P", "r", "o", "d", "u", "c", "t", "/">>
S_Collection == <<"/", "C", "o", "l", "l", "e", "c", "t", "i", "o", "n", "/">>
S_ProductVariant == <<"/", "P", "r", "o", "d", "u", "c", "t", "V", "a", "r", "i", "a", "n", "t", "/">>
S_Metafield == <<"/", "M", "e", "t", "a", "f", "i", "e", "l", "d", "/">>

\* the code points of the characters of a locale, in increasing order
CharOrder == <<"-", "0", "1", "2", "3", "4", "5", "6", "7", "8", "9",
               "A", "B", "C", "D", "E", "F", "G", "H", "I", "J", "K", "L", "M",
               "N", "O", "P", "Q", "R", "S", "T", "U", "V", "W", "X", "Y", "Z",
               "_",
               "a", "b", "c", "d", "e", "f", "g", "h", "i", "j", "k", "l", "m",
               "n", "o", "p", "q", "r", "s", "t", "u", "v", "w", "x", "y", "z">>
CharRank(c) == CHOOSE i \in 1..Len(CharOrder) : CharOrder[i] = c

\* a < b for two texts (Python's str order)
RECURSIVE TextLess(_, _)
TextLess(a, b) ==
  IF b = <<>> THEN FALSE
  ELSE IF a = <<>> THEN TRUE
  ELSE IF Head(a) = Head(b) THEN TextLess(Tail(a), Tail(b))
  ELSE CharRank(Head(a)) < CharRank(Head(b))

\* sorted(texts)
RECURSIVE Sorted(_)
Sorted(texts) ==
  IF texts = {} THEN <<>>
  ELSE LET least == CHOOSE x \in texts : \A y \in texts \ {x} : TextLess(x, y)
       IN  <<least>> \o Sorted(texts \ {least})

\* sep.join(texts)
RECURSIVE Join(_, _)
Join(sep, texts) ==
  IF texts = <<>> THEN <<>>
  ELSE IF Len(texts) = 1 THEN texts[1]
  ELSE texts[1] \o sep \o Join(sep, Tail(texts))

\* line 27 alone: a collection record keyed by its id, as any other record
ObjectKeyNoParent(shopify_object) == DictGet(shopify_object, K_id).v

\* lines 27-30: the key of a record in the Object Index
ObjectKey(shopify_object) ==
  IF Contains(DictGet(shopify_object, K_id).v, S_shopify_Collection)
  THEN DictGet(shopify_object, K_id).v \o DictGet(shopify_object, K_parentId).v
  ELSE DictGet(shopify_object, K_id).v

\* lines 27 and 30: the lookups that raise KeyError
IndexRaises(shopify_object) ==
  IF DictHas(shopify_object, K_id)
  THEN /\ Contains(DictGet(shopify_object, K_id).v, S_shopify_Collection)
       /\ ~DictHas(shopify_object, K_parentId)
  ELSE TRUE

\* defaultdict(list): d[k]
ListOf(d, k) == IF DictHas(d, k) THEN DictGet(d, k) ELSE <<>>
\* defaultdict(list): the dict after d[k] has been read
Touched(d, k) == IF DictHas(d, k) THEN d ELSE Append(d, <<k, <<>>>>)

\* lines 34-35
LinkChild(p2c, shopify_object, shopify_id) ==
  IF DictHas(shopify_object, K_parentId)
  THEN DictSet(p2c, DictGet(shopify_object, K_parentId).v,
               Append(ListOf(p2c, DictGet(shopify_object, K_parentId).v), shopify_id))
  ELSE p2c

\* lines 46-51 and 67-77: the entity after the translations have been written
\* to it; rename says whether body_html is written as descriptionHtml
RECURSIVE ApplyTranslations(_, _, _)
ApplyTranslations(entity, translations, rename) ==
  IF translations = <<>> THEN entity
  ELSE ApplyTranslations(
         DictSet(entity,
                 IF rename /\ DictGet(Head(translations).v, K_key).v = K_body_html
                 THEN K_descriptionHtml
                 ELSE DictGet(Head(translations).v, K_key).v,
                 DictGet(Head(translations).v, K_value)),
         Tail(translations), rename)

\* lines 45-48 and 66-69: the locales of the translations
Locales(translations) ==
  {DictGet(translations[i].v, K_locale).v : i \in 1..Len(translations)}

\* lines 44-54 and 65-81
Translated(entity, rename) ==
  IF DictHas(entity, K_translations) /\ Truthy(DictGet(entity, K_translations))
  THEN DictDel(
         DictSet(ApplyTranslations(entity, DictGet(entity, K_translations).v, rename),
                 K_translation_done,
                 VStr(Join(<<"-">>, Sorted(Locales(DictGet(entity, K_translations).v))))),
         K_translations)
  ELSE entity

\* lines 92-96: the metafields of a variant
RECURSIVE VariantMetafields(_, _)
VariantMetafields(objs, children_ids) ==
  IF children_ids = <<>> THEN <<>>
  ELSE (IF /\ Contains(Head(children_ids), S_Metafield)
           /\ Contains(DictGet(DictGet(objs, Head(children_ids)), K_parentId).v,
                       S_ProductVariant)
        THEN <<VDict(DictGet(objs, Head(children_ids)))>> ELSE <<>>)
       \o VariantMetafields(objs, Tail(children_ids))

\* lines 89-100: create_variant, which writes the metafields to the record of
\* the Object Index
create_variant(variant_id, objs, p2c) ==
  DictSet(DictGet(objs, variant_id), K_metafields,
          VList(VariantMetafields(objs, ListOf(p2c, variant_id))))

\* lines 41-60: the state after the loop over the children: the three lists
\* and the two indexes
RECURSIVE Children(_, _)
Children(acc, children_ids) ==
  IF children_ids = <<>> THEN acc
  ELSE Children(
         LET child_id == Head(children_ids)
         IN  IF Contains(child_id, S_Collection)
             THEN [acc EXCEPT !.collections =
                     Append(@, VDict(Translated(DictGet(acc.objs, child_id), FALSE)))]
             ELSE IF Contains(child_id, S_ProductVariant)
             THEN [acc EXCEPT
                     !.variants = Append(@, VDict(create_variant(child_id, acc.objs, acc.p2c))),
                     !.objs = DictSet(@, child_id, create_variant(child_id, acc.objs, acc.p2c)),
                     !.p2c = Touched(@, child_id)]
             ELSE IF /\ Contains(child_id, S_Metafield)
                     /\ Contains(DictGet(DictGet(acc.objs, child_id), K_parentId).v, S_Product)
             THEN [acc EXCEPT !.metafields = Append(@, VDict(DictGet(acc.objs, child_id)))]
             ELSE acc,
         Tail(children_ids))

\* lines 62-85: the product record with its translations and its children
WithChildren(product, acc) ==
  DictSet(DictSet(DictSet(Translated(product, TRUE),
                          K_collections, VList(acc.collections)),
                  K_variants, VList(acc.variants)),
          K_metafields, VList(acc.metafields))

\* lines 37-87: create_product_from_objects: the product, which is the record
\* of the Object Index, and the two indexes after the call
Assembled(k, acc) ==
  [product |-> WithChildren(DictGet(acc.objs, k), acc),
   objs    |-> DictSet(acc.objs, k, WithChildren(DictGet(acc.objs, k), acc)),
   p2c     |-> acc.p2c]

create_product_from_objects(k, objs, p2c) ==
  Assembled(k, Children([collections |-> <<>>, variants |-> <<>>, metafields |-> <<>>,
                         objs |-> objs, p2c |-> Touched(p2c, k)],
                        ListOf(p2c, k)))

\* line 20
IsRootKey(k) == Contains(k, S_Product) /\ ~Contains(k, S_Collection)

(***************************************************************************)
(* The graph reconstruction of parse_shopify_objects, one step per line    *)
(* of the stream and one per key of the Object Index                       *)
(***************************************************************************)
MaxStream == 4

Product    == <<"P", "r", "o", "d", "u", "c", "t">>
Collection == <<"C", "o", "l", "l", "e", "c", "t", "i", "o", "n">>
Metafield  == <<"M", "e", "t", "a", "f", "i", "e", "l", "d">>
fr == <<"f", "r">>
de == <<"d", "e">>
tz == VStr(<<"z">>)

\* a translation entry
Tr(locale, key, value) ==
  VDict(<<<<K_locale, VStr(locale)>>, <<K_key, VStr(key)>>, <<K_value, value>>>>)
\* a line of the stream that json.loads turns into a record
Line(items) == [ok |-> TRUE, obj |-> items]
\* a line json.loads raises on
Unparsable == [ok |-> FALSE, obj |-> <<>>]

\* two records of the same product: the first without a translations list,
\* the second with an empty one and another title
L_P1  == Line(<<<<K_id, VStr(Gid(Product, 1))>>, <<K_title, tx>>>>)
L_P1b == Line(<<<<K_id, VStr(Gid(Product, 1))>>, <<K_title, ty>>,
                <<K_translations, VList(<<>>)>>>>)
\* a product translated in two locales, with two entries for one key
L_P2  == Line(<<<<K_id, VStr(Gid(Product, 2))>>, <<K_title, tx>>,
                <<K_translations, VList(<<Tr(fr, K_title, ty),
                                          Tr(de, K_body_html, ty),
                                          Tr(fr, K_title, tz)>>)>>>>)
L_P3  == Line(<<<<K_id, VStr(Gid(Product, 3))>>, <<K_title, tx>>>>)
\* one collection under two products, each record with its own translations
L_C1P1 == Line(<<<<K_id, VStr(Gid(Collection, 1))>>,
                 <<K_parentId, VStr(Gid(Product, 1))>>, <<K_title, tx>>,
                 <<K_translations, VList(<<Tr(fr, K_title, ty)>>)>>>>)
L_C1P2 == Line(<<<<K_id, VStr(Gid(Collection, 1))>>,
                 <<K_parentId, VStr(Gid(Product, 2))>>, <<K_title, tx>>,
                 <<K_translations, VList(<<Tr(de, K_title, tz),
                                           Tr(de, K_body_html, ty)>>)>>>>)
\* a variant, a metafield of the variant and a metafield of a product
L_V1  == Line(<<<<K_id, VStr(Gid(ProductVariant, 1))>>,
                <<K_parentId, VStr(Gid(Product, 1))>>>>)
L_M1  == Line(<<<<K_id, VStr(Gid(Metafield, 1))>>,
                <<K_parentId, VStr(Gid(ProductVariant, 1))>>>>)
L_M2  == Line(<<<<K_id, VStr(Gid(Metafield, 2))>>,
                <<K_parentId, VStr(Gid(Product, 2))>>>>)
\* a record without id and a collection record without __parentId
L_NoId     == Line(<<<<K_title, tx>>>>)
L_NoParent == Line(<<<<K_id, VStr(Gid(Collection, 1))>>, <<K_title, tx>>>>)

WellFormedLines == {L_P1, L_P1b, L_P2, L_P3, L_C1P1, L_C1P2, L_V1, L_M1, L_M2}
MalformedLines  == {Unparsable, L_NoId, L_NoParent}
Lines   == WellFormedLines \cup MalformedLines
Streams == UNION {[1..n -> Lines] : n \in 0..MaxStream}

ParseInit ==
  /\ NormIdle /\ FlatIdle /\ ProdIdle /\ RestIdle
  /\ stream \in Streams
  /\ pos = 1
  /\ objects = <<>>
  /\ parent_to_children = <<>>
  /\ kpos = 1
  /\ products = <<>>
  /\ pc = "index"

\* line 32 with a record already indexed moved to the end of the index
IndexedMoveToEnd(objs, shopify_object, shopify_id) ==
  DictSetMoveToEnd(objs, shopify_id, shopify_object)
\* line 32
Indexed(objs, shopify_object, shopify_id) == DictSet(objs, shopify_id, shopify_object)

\* lines 16-17 and 26-35: index_object on the next line of the stream
IndexObject ==
  /\ pc = "index" /\ pos <= Len(stream)
  /\ stream[pos].ok /\ ~IndexRaises(stream[pos].obj)
  /\ objects' = Indexed(objects, stream[pos].obj, ObjectKey(stream[pos].obj))
  /\ parent_to_children' =
       LinkChild(parent_to_children, stream[pos].obj, ObjectKey(stream[pos].obj))
  /\ pos' = pos + 1
  /\ UNCHANGED <<stream, kpos, products, pc>>
  /\ UNCHANGED <<normVars, flatVars, prodVars, restVars>>

\* lines 17, 27 and 30: json.loads or index_object raises and nothing in
\* parse_shopify_objects catches it
IndexRaise ==
  /\ pc = "index" /\ pos <= Len(stream)
  /\ IF stream[pos].ok THEN IndexRaises(stream[pos].obj) ELSE TRUE
  /\ pc' = "raised"
  /\ UNCHANGED <<stream, pos, objects, parent_to_children, kpos, products>>
  /\ UNCHANGED <<normVars, flatVars, prodVars, restVars>>

\* line 19: the stream is exhausted and the loop over the keys starts
StartAssembly ==
  /\ pc = "index" /\ pos > Len(stream)
  /\ pc' = "assemble"
  /\ UNCHANGED <<stream, pos, objects, parent_to_children, kpos, products>>
  /\ UNCHANGED <<normVars, flatVars, prodVars, restVars>>

\* the result of line 21 written to the three variables
Assemble3(r) ==
  /\ products' = Append(products, r.product)
  /\ objects' = r.objs
  /\ parent_to_children' = r.p2c

\* lines 20-22: the key at hand is the key of a product
AssembleProduct ==
  /\ pc = "assemble" /\ kpos <= Len(objects)
  /\ IsRootKey(objects[kpos][1])
  /\ Assemble3(create_product_from_objects(objects[kpos][1], objects, parent_to_children))
  /\ kpos' = kpos + 1
  /\ UNCHANGED <<stream, pos, pc>>
  /\ UNCHANGED <<normVars, flatVars, prodVars, restVars>>

\* line 20: the key at hand is not the key of a product
SkipKey ==
  /\ pc = "assemble" /\ kpos <= Len(objects)
  /\ ~IsRootKey(objects[kpos][1])
  /\ kpos' = kpos + 1
  /\ UNCHANGED <<stream, pos, objects, parent_to_children, products, pc>>
  /\ UNCHANGED <<normVars, flatVars, prodVars, restVars>>

\* line 24
Return ==
  /\ pc = "assemble" /\ kpos > Len(objects)
  /\ pc' = "done"
  /\ UNCHANGED <<stream, pos, objects, parent_to_children, kpos, products>>
  /\ UNCHANGED <<normVars, flatVars, prodVars, restVars>>

ParseNext ==
  \/ IndexObject
  \/ IndexRaise
  \/ StartAssembly
  \/ AssembleProduct
  \/ SkipKey
  \/ Return

SpecParse == ParseInit /\ [][ParseNext]_vars

(***************************************************************************)
(* Properties of the graph reconstruction                                  *)
(***************************************************************************)
RootIds       == {Gid(Product, n) : n \in 1..3}
CollectionIds == {Gid(Collection, 1)}

IdOf(record) == DictGet(record, K_id).v
IsRootLine(l) == l.ok /\ DictHas(l.obj, K_id) /\ IdOf(l.obj) \in RootIds

\* the identifiers of the root records of a stream, each at its first
\* occurrence
RECURSIVE FirstOccurrences(_)
FirstOccurrences(s) ==
  IF s = <<>> THEN <<>>
  ELSE LET n    == Len(s)
           init == FirstOccurrences(SubSeq(s, 1, n - 1))
       IN  IF IsRootLine(s[n]) /\ \A i \in 1..(n - 1) : ~IsRootLine(s[i]) \/ IdOf(s[i].obj) # IdOf(s[n].obj)
           THEN Append(init, IdOf(s[n].obj))
           ELSE init

ProductIds == [i \in 1..Len(products) |-> IdOf(products[i])]

\* C1: the products parse_shopify_objects returns are the root records of the
\* stream in the order of their first occurrence, wherever the records of
\* their children are.
C1_FirstOccurrenceOrder ==
  pc = "done" => ProductIds = FirstOccurrences(stream)

\* three products are returned for a stream in which the record of a child
\* comes before the record of its parent
C1_Witness ==
  /\ pc = "done"
  /\ Len(products) = 3
  /\ \E i, j \in 1..Len(stream) :
       /\ i < j
       /\ DictHas(stream[i].obj, K_parentId)
       /\ IsRootLine(stream[j])
       /\ DictGet(stream[i].obj, K_parentId).v = IdOf(stream[j].obj)

\* line i of the stream is the record of collection c under parent p
IsCollectionLine(i, c, p) ==
  /\ stream[i].ok
  /\ DictHas(stream[i].obj, K_id) /\ IdOf(stream[i].obj) = c
  /\ DictHas(stream[i].obj, K_parentId) /\ DictGet(stream[i].obj, K_parentId).v = p

\* the last record of the stream of collection c under parent p
LastRecord(c, p) ==
  stream[CHOOSE i \in 1..Len(stream) :
           /\ IsCollectionLine(i, c, p)
           /\ \A j \in (i + 1)..Len(stream) : ~IsCollectionLine(j, c, p)].obj

\* the value the translations of a raw record give to a key: the value of the
\* last entry for the key, the value of the record where there is none
EntriesFor(raw, k) ==
  SelectSeq(DictGet(raw, K_translations).v, LAMBDA t : DictGet(t.v, K_key).v = k)
ExpectedValue(raw, k) ==
  IF EntriesFor(raw, k) # <<>>
  THEN DictGet(EntriesFor(raw, k)[Len(EntriesFor(raw, k))].v, K_value)
  ELSE DictGet(raw, k)

\* col is the raw record with the translations of the raw record applied
IsTranslationOf(col, raw) ==
  /\ ~DictHas(col, K_translations)
  /\ \A k \in (DictKeys(raw) \ {K_translations})
              \cup {DictGet(t.v, K_key).v : t \in {DictGet(raw, K_translations).v[i] :
                                                   i \in 1..Len(DictGet(raw, K_translations).v)}} :
       DictHas(col, k) /\ DictGet(col, k) = ExpectedValue(raw, k)

CollectionsOf(product) == DictGet(product, K_collections).v

\* C2: a collection that occurs under two products, each record with its own
\* translations, is in both products with the translations of the record of
\* that product, and the Object Index keeps each raw record with its
\* translations list.
C2_SharedCollection ==
  pc = "done" =>
    \A i \in 1..Len(products) : \A c \in CollectionIds :
      (\E n \in 1..Len(stream) : IsCollectionLine(n, c, IdOf(products[i]))) =>
        /\ DictHas(objects, c \o IdOf(products[i]))
        /\ DictGet(objects, c \o IdOf(products[i])) = LastRecord(c, IdOf(products[i]))
        /\ \E j \in 1..Len(CollectionsOf(products[i])) :
             IdOf(CollectionsOf(products[i])[j].v) = c
        /\ \A j \in 1..Len(CollectionsOf(products[i])) :
             IdOf(CollectionsOf(products[i])[j].v) = c =>
               IsTranslationOf(CollectionsOf(products[i])[j].v,
                               LastRecord(c, IdOf(products[i])))

\* two products are returned, each with the collection, and the two copies
\* of the collection have different titles
C2_Witness ==
  /\ pc = "done"
  /\ Len(products) = 2
  /\ \A i \in 1..2 : Len(CollectionsOf(products[i])) = 1
  /\ IdOf(CollectionsOf(products[1])[1].v) = IdOf(CollectionsOf(products[2])[1].v)
  /\ DictGet(CollectionsOf(products[1])[1].v, K_title)
       # DictGet(CollectionsOf(products[2])[1].v, K_title)
  /\ DictHas(DictGet(objects, Gid(Collection, 1) \o Gid(Product, 1)), K_translations)
  /\ DictHas(DictGet(objects, Gid(Collection, 1) \o Gid(Product, 2)), K_translations)

\* C3: a stream with a malformed record (an unparsable line, a record
\* without id, a collection record without __parentId) does not abort the
\* pass, and the products returned are the root records of the stream.
C3_MalformedSkipped ==
  (\E i \in 1..Len(stream) : stream[i] \in MalformedLines) =>
    /\ pc # "raised"
    /\ pc = "done" => ProductIds = FirstOccurrences(stream)

(***************************************************************************)
(* The deriver run on products that have or lack the fields it reads       *)
(***************************************************************************)
K_DRAFT == <<"D", "R", "A", "F", "T">>
K_sv_title == <<"s", "v", ".", "t", "i", "t", "l", "e">>
K_sv_image == <<"s", "v", ".", "i", "m", "a", "g", "e">>
K_sv_tags  == <<"s", "v", ".", "t", "a", "g", "s">>

\* the root attributes: handle and status present or not, the inventory
\* absent, null, zero, positive or negative
DeriveRoots ==
  { h \o st \o inv :
      h   \in {<<>>, <<<<K_sp_handle, VStr(<<"h">>)>>>>},
      st  \in {<<>>} \cup {<<<<K_sp_status, VStr(x)>>>> : x \in {K_ACTIVE, K_DRAFT}},
      inv \in {<<>>} \cup {<<<<K_sp_totalInventory, x>>>> :
                             x \in {VNull, VInt(0), VInt(5), VInt(0 - 1)}} }

\* a variant all of whose properties are empty
EmptyVariant ==
  << <<K_sv_id, VNull>>, <<K_sv_sku, VStr(<<>>)>>, <<K_sv_title, VStr(<<" ">>)>>,
     <<K_sv_image, VDict(<<>>)>>, <<K_sv_tags, VList(<<>>)>> >>

\* the attributes of the i-th variant: an identifier, the sku absent, empty
\* or not, the flag absent, null, false or true; or the empty variant
DeriveVariantAttrs(i) ==
  { <<<<K_sv_id, VStr(Gid(ProductVariant, i))>>>> \o sku \o av :
      sku \in {<<>>, <<<<K_sv_sku, VStr(<<>>)>>>>,
               <<<<K_sv_sku, VStr(<<"S", ToString(i)>>)>>>>},
      av  \in {<<>>} \cup {<<<<K_sv_availableForSale, x>>>> :
                             x \in {VNull, VBool(FALSE), VBool(TRUE)}} }
  \cup {EmptyVariant}

\* the variants maps of up to n variants, keyed by variant id
RECURSIVE DeriveVariantMaps(_)
DeriveVariantMaps(n) ==
  IF n = 0 THEN {<<>>}
  ELSE LET smaller == DeriveVariantMaps(n - 1)
       IN  smaller \cup
           {Append(m, <<VStr(Gid(ProductVariant, n)), a>>) :
              m \in {x \in smaller : Len(x) = n - 1}, a \in DeriveVariantAttrs(n)}

\* every root with no variant or one, and every variants map under the
\* root of an active product in stock
DeriveProducts ==
  {[id |-> VStr(<<"1">>), attributes |-> r, variants |-> m] :
     r \in DeriveRoots, m \in DeriveVariantMaps(1)}
  \cup
  {[id |-> VStr(<<"1">>), attributes |-> RootAttrs, variants |-> m] :
     m \in DeriveVariantMaps(MaxVariants)}

DeriveInit ==
  /\ cp_product \in DeriveProducts
  /\ cp_out = <<>>
  /\ cp_pc = "start"
  /\ NormIdle /\ FlatIdle /\ ParseIdle /\ RestIdle

SpecDerive == DeriveInit /\ [][ProdNext]_vars

\* the input status and inventory of the product at hand
InStatus    == DictGetOrNull(cp_product.attributes, K_sp_status)
InInventory == DictGetOrNull(cp_product.attributes, K_sp_totalInventory)

\* C11: in every record create_product returns, availability is true if and
\* only if the input status is ACTIVE and the total inventory is present and
\* strictly positive, and false otherwise.
C11_RootAvailability ==
  cp_pc = "returned" =>
    /\ DictHas(cp_out.attributes, K_availability)
    /\ DictGet(cp_out.attributes, K_availability) =
         VBool(/\ InStatus = VStr(K_ACTIVE)
               /\ InInventory.t = "int"
               /\ InInventory.v > 0)

\* a record has been returned for an active product with no stock, and
\* it is not available
C11_Witness ==
  /\ cp_pc = "returned"
  /\ InStatus = VStr(K_ACTIVE)
  /\ InInventory = VInt(0)
  /\ DictGet(cp_out.attributes, K_availability) = VBool(FALSE)

\* the text after the last "/" of a text
AfterLastSlash(s) ==
  LET slashes == {i \in 1..Len(s) : s[i] = "/"}
  IN  IF slashes = {} THEN s
      ELSE SubSeq(s, (CHOOSE i \in slashes : \A j \in slashes : j <= i) + 1, Len(s))

\* every property of the attributes is an empty value
AllEmpty(a) == \A n \in 1..Len(a) : EmptyValue(a[n][2])

\* the input variants with a property that is not empty
LiveVariants == {i \in 1..Len(cp_product.variants) : ~AllEmpty(InVariant(i))}

\* the key the i-th input variant is to have in the output
ExpectedKey(i) ==
  IF DictHas(InVariant(i), K_sv_sku) /\ DictGet(InVariant(i), K_sv_sku).v # <<>>
  THEN DictGet(InVariant(i), K_sv_sku)
  ELSE VStr(AfterLastSlash(DictGet(InVariant(i), K_sv_id).v))

\* the availableForSale flag of the i-th input variant is present and true
ForSale(i) ==
  /\ DictHas(InVariant(i), K_sv_availableForSale)
  /\ DictGet(InVariant(i), K_sv_availableForSale) = VBool(TRUE)

\* C12: every variant of the output has an availability attribute that is a
\* boolean, true if and only if availableForSale of the input variant is
\* present and true; the attribute is kept when it is false.
C12_VariantAvailability ==
  cp_pc = "returned" =>
    \A j \in 1..Len(cp_out.variants) :
      /\ DictHas(cp_out.variants[j][2], K_availability)
      /\ DictGet(cp_out.variants[j][2], K_availability).t = "bool"
      /\ \A i \in LiveVariants :
           ExpectedKey(i) = cp_out.variants[j][1] =>
             DictGet(cp_out.variants[j][2], K_availability) = VBool(ForSale(i))

\* two variants are in the output, the first for sale and the second with
\* the flag false, and the second has kept availability = false
C12_Witness ==
  /\ cp_pc = "returned"
  /\ Len(cp_out.variants) = 2
  /\ ForSale(1)
  /\ DictGetOrNull(InVariant(2), K_sv_availableForSale) = VBool(FALSE)
  /\ DictGet(cp_out.variants[1][2], K_availability) = VBool(TRUE)
  /\ DictGet(cp_out.variants[2][2], K_availability) = VBool(FALSE)

\* C13: the keys of the output variants map are, for each input variant that
\* is not empty, its sku when the sku is present and not empty and the text
\* after the last "/" of its identifier otherwise.
C13_VariantKey ==
  cp_pc = "returned" =>
    DictKeys(cp_out.variants) = {ExpectedKey(i) : i \in LiveVariants}

\* the output has a variant under its sku and a variant of empty sku under
\* the last segment of its identifier
C13_Witness ==
  /\ cp_pc = "returned"
  /\ Len(cp_product.variants) = 2
  /\ DictGetOrNull(InVariant(1), K_sv_sku) = VStr(<<"S", "1">>)
  /\ DictGetOrNull(InVariant(2), K_sv_sku) = VStr(<<>>)
  /\ DictKeys(cp_out.variants) = {VStr(<<"S", "1">>), VStr(<<"2">>)}

\* C14: a variant whose properties are all empty has no entry in the output
\* variants map, and every entry of the map has a non-empty attribute map.
C14_EmptyVariantDropped ==
  cp_pc = "returned" =>
    /\ Len(cp_out.variants) = Cardinality(LiveVariants)
    /\ \A j \in 1..Len(cp_out.variants) :
         /\ cp_out.variants[j][1] # VNull
         /\ cp_out.variants[j][2] # <<>>

\* a product with an empty variant and a variant with properties has been
\* derived, and the output has the second only
C14_Witness ==
  /\ cp_pc = "returned"
  /\ Len(cp_product.variants) = 2
  /\ InVariant(1) = EmptyVariant
  /\ LiveVariants = {2}
  /\ Len(cp_out.variants) = 1

\* C15: create_product returns for every product, whatever fields it has or
\* lacks, a record with an attributes map and a variants map that hold no
\* empty value; it never raises.
C15_AlwaysComplete ==
  cp_pc # "start" =>
    /\ cp_pc = "returned"
    /\ \A n \in 1..Len(cp_out.attributes) : ~EmptyValue(cp_out.attributes[n][2])
    /\ \A j \in 1..Len(cp_out.variants) :
         \A n \in 1..Len(cp_out.variants[j][2]) : ~EmptyValue(cp_out.variants[j][2][n][2])

(***************************************************************************)
(* bloomreach_generics: create_id, create_attributes, create_variants,     *)
(* create_product                                                          *)
(***************************************************************************)
K_NOIDENTIFIERFOUND == <<"N", "O", "I", "D", "E", "N", "T", "I", "F", "I", "E", "R", "F", "O", "U", "N", "D">>
K_namespace == <<"n", "a", "m", "e", "s", "p", "a", "c", "e">>
K_type      == <<"t", "y", "p", "e">>
K_list      == <<"l", "i", "s", "t">>
K_handle    == <<"h", "a", "n", "d", "l", "e">>
K_name      == <<"n", "a", "m", "e">>
K_category_paths == <<"c", "a", "t", "e", "g", "o", "r", "y", "_", "p", "a", "t", "h", "s">>
K_sp == <<"s", "p">>
K_sv == <<"s", "v">>

\* text.split(sep) for a separator of one character
RECURSIVE Split(_, _)
Split(text, sep) ==
  IF \E i \in 1..Len(text) : text[i] = sep
  THEN <<SubSeq(text, 1, (CHOOSE i \in 1..Len(text) :
                            text[i] = sep /\ \A j \in 1..(i - 1) : text[j] # sep) - 1)>>
       \o Split(SubSeq(text, (CHOOSE i \in 1..Len(text) :
                                text[i] = sep /\ \A j \in 1..(i - 1) : text[j] # sep) + 1,
                       Len(text)), sep)
  ELSE <<text>>

\* lines 107-113 with the loop running on after a match
RECURSIVE CreateIdLoopNoBreak(_, _, _)
CreateIdLoopNoBreak(id, shopify_object, identifiers) ==
  IF identifiers = <<>> THEN id
  ELSE CreateIdLoopNoBreak(
         IF /\ DictHas(shopify_object, Head(identifiers))
            /\ Truthy(DictGet(shopify_object, Head(identifiers)))
         THEN DictGet(shopify_object, Head(identifiers))
         ELSE IF DictHas(shopify_object, K_id)
         THEN DictGet(shopify_object, K_id) ELSE id,
         shopify_object, Tail(identifiers))

\* lines 107-113: the id after the loop over the candidates
RECURSIVE CreateIdLoop(_, _, _)
CreateIdLoop(id, shopify_object, identifiers) ==
  IF identifiers = <<>> THEN id
  ELSE IF /\ DictHas(shopify_object, Head(identifiers))
          /\ Truthy(DictGet(shopify_object, Head(identifiers)))
  THEN DictGet(shopify_object, Head(identifiers))
  ELSE CreateIdLoop(IF DictHas(shopify_object, K_id)
                    THEN DictGet(shopify_object, K_id) ELSE id,
                    shopify_object, Tail(identifiers))

\* lines 89-115; identifiers is None or a comma-separated text
create_id(shopify_object, identifiers) ==
  CreateIdLoop(VStr(K_NOIDENTIFIERFOUND), shopify_object,
               IF identifiers = VNull THEN <<K_id>> ELSE Split(identifiers.v, ","))

\* json.loads on the texts the model gives it: a quoted text without quote
\* or comma inside, an unsigned integer, and a bracketed comma-separated
\* list of those parse; every other text of the model raises
JsonScalarOk(tok) ==
  \/ AllDigits(tok)
  \/ /\ Len(tok) >= 2 /\ tok[1] = "\"" /\ tok[Len(tok)] = "\""
     /\ \A i \in 2..(Len(tok) - 1) : tok[i] # "\""
JsonScalar(tok) ==
  IF AllDigits(tok) THEN VInt(DigitsVal(tok)) ELSE VStr(SubSeq(tok, 2, Len(tok) - 1))
IsJsonList(text) == Len(text) >= 2 /\ text[1] = "[" /\ text[Len(text)] = "]"
JsonElements(text) ==
  IF Len(text) = 2 THEN <<>> ELSE Split(SubSeq(text, 2, Len(text) - 1), ",")
JsonLoadsRaises(text) ==
  IF IsJsonList(text)
  THEN \E i \in 1..Len(JsonElements(text)) : ~JsonScalarOk(JsonElements(text)[i])
  ELSE ~JsonScalarOk(text)
JsonLoads(text) ==
  IF IsJsonList(text)
  THEN VList([i \in 1..Len(JsonElements(text)) |-> JsonScalar(JsonElements(text)[i])])
  ELSE JsonScalar(text)

\* for x in v: the values that cannot be iterated, or whose elements are
\* not records, raise TypeError
NotIterable(v) ==
  IF v.t \in {"list", "str", "dict"}
  THEN v.t # "list" /\ v.v # <<>>
  ELSE TRUE

\* lines 173-179: the lookups and operations that raise on a metafield
MetafieldRaises(metafield) ==
  IF /\ metafield.t = "dict"
     /\ \A k \in {K_namespace, K_key, K_type, K_value} : DictHas(metafield.v, k)
     /\ \A k \in {K_namespace, K_key, K_type} : DictGet(metafield.v, k).t = "str"
  THEN /\ Contains(DictGet(metafield.v, K_type).v, K_list)
       /\ IF DictGet(metafield.v, K_value).t = "str"
          THEN JsonLoadsRaises(DictGet(metafield.v, K_value).v)
          ELSE TRUE
  ELSE TRUE

\* lines 173-179: the attribute of a metafield
MetafieldName(metafield, namespace) ==
  namespace \o <<"m", ".">> \o DictGet(metafield, K_namespace).v
            \o <<".">> \o DictGet(metafield, K_key).v
MetafieldValue(metafield) ==
  IF Contains(DictGet(metafield, K_type).v, K_list)
  THEN JsonLoads(DictGet(metafield, K_value).v)
  ELSE DictGet(metafield, K_value)

\* lines 171-179: the attributes after the loop over the metafields
RECURSIVE WithMetafields(_, _, _)
WithMetafields(attributes, metafields, namespace) ==
  IF metafields = <<>> THEN attributes
  ELSE WithMetafields(
         DictSet(attributes, MetafieldName(Head(metafields).v, namespace),
                 MetafieldValue(Head(metafields).v)),
         Tail(metafields), namespace)

\* line 200: the lookups that raise on a collection
CollectionRaises(collection) ==
  IF collection.t = "dict"
  THEN ~DictHas(collection.v, K_handle) \/ ~DictHas(collection.v, K_title)
  ELSE TRUE

\* lines 188-202
create_category_paths(collections) ==
  VList([i \in 1..Len(collections) |->
           VList(<<VDict(<<<<K_id, DictGet(collections[i].v, K_handle)>>,
                           <<K_name, DictGet(collections[i].v, K_title)>>>>)>>)])

\* lines 168-184: the property k raises
PropertyRaises(k, v) ==
  IF Contains(k, K_variants) THEN FALSE
  ELSE IF Contains(k, K_metafields)
  THEN IF NotIterable(v) THEN TRUE
       ELSE v.t = "list" /\ \E i \in 1..Len(v.v) : MetafieldRaises(v.v[i])
  ELSE IF Contains(k, K_collections)
  THEN IF NotIterable(v) THEN TRUE
       ELSE v.t = "list" /\ \E i \in 1..Len(v.v) : CollectionRaises(v.v[i])
  ELSE FALSE

\* lines 168-184: the attributes after the property k
WithProperty(attributes, k, v, namespace) ==
  IF Contains(k, K_variants) THEN attributes
  ELSE IF Contains(k, K_metafields)
  THEN WithMetafields(attributes, IF v.t = "list" THEN v.v ELSE <<>>, namespace)
  ELSE IF Contains(k, K_collections)
  THEN DictSet(attributes, K_category_paths,
               create_category_paths(IF v.t = "list" THEN v.v ELSE <<>>))
  ELSE DictSet(attributes, namespace \o <<".">> \o k, v)

\* lines 166-185: the attributes after the loop over the properties
RECURSIVE WithProperties(_, _, _)
WithProperties(attributes, items, namespace) ==
  IF items = <<>> THEN attributes
  ELSE WithProperties(WithProperty(attributes, Head(items)[1], Head(items)[2], namespace),
                      Tail(items), namespace)

\* lines 154-185: create_attributes raises on the object
AttributesRaise(shopify_object) ==
  \E i \in 1..Len(shopify_object) : PropertyRaises(shopify_object[i][1], shopify_object[i][2])

\* lines 154-185
create_attributes(shopify_object, namespace) ==
  WithProperties(<<>>, shopify_object, namespace)

\* lines 137-151: create_variant of bloomreach_generics
generics_create_variant(shopify_variant, identifiers) ==
  [id |-> create_id(shopify_variant, identifiers),
   attributes |-> create_attributes(shopify_variant, K_sv)]

\* line 133
PutVariant(variants, variant) == DictSet(variants, variant.id, variant.attributes)

\* lines 131-133: the variants map after the loop over the variants
RECURSIVE WithVariants(_, _, _)
WithVariants(variants, shopify_variants, identifiers) ==
  IF shopify_variants = <<>> THEN variants
  ELSE WithVariants(
         PutVariant(variants, generics_create_variant(Head(shopify_variants).v, identifiers)),
         Tail(shopify_variants), identifiers)

\* lines 118-134; the map holds the attributes of each variant under its id
create_variants(shopify_product, identifiers) ==
  IF DictHas(shopify_product, K_variants) /\ Truthy(DictGet(shopify_product, K_variants))
  THEN WithVariants(<<>>, DictGet(shopify_product, K_variants).v, identifiers)
  ELSE <<>>

\* lines 130-133: create_attributes raises on a variant
VariantsRaise(shopify_product) ==
  IF DictHas(shopify_product, K_variants) /\ Truthy(DictGet(shopify_product, K_variants))
  THEN \E i \in 1..Len(DictGet(shopify_product, K_variants).v) :
         AttributesRaise(DictGet(shopify_product, K_variants).v[i].v)
  ELSE FALSE

\* lines 70-86: create_product of bloomreach_generics raises
GenericsRaises(shopify_product) ==
  IF AttributesRaise(shopify_product) THEN TRUE ELSE VariantsRaise(shopify_product)

\* lines 70-86: create_product of bloomreach_generics
generics_create_product(shopify_product, pid_identifiers, vid_identifiers) ==
  [id |-> create_id(shopify_product, pid_identifiers),
   attributes |-> create_attributes(shopify_product, K_sp),
   variants |-> create_variants(shopify_product, vid_identifiers)]

(***************************************************************************)
(* bloomreach_generics.create_product run on bounded products              *)
(***************************************************************************)
K_sku == <<"s", "k", "u">>
K_variantsCount == <<"v", "a", "r", "i", "a", "n", "t", "s", "C", "o", "u", "n", "t">>
K_price == <<"p", "r", "i", "c", "e">>
th == VStr(<<"h">>)

\* the identifier arguments: none, one candidate, two candidates in both
\* orders, a candidate no record has
IdentifierArgs ==
  {VNull, VStr(K_id), VStr(K_handle), VStr(K_handle \o <<",">> \o K_title),
   VStr(K_title \o <<",">> \o K_handle), VStr(K_sku)}

\* records with each of id, handle and title absent, empty or set
IdRecords ==
  { i \o h \o t :
      i \in {<<>>, <<<<K_id, VStr(<<>>)>>>>, <<<<K_id, VStr(Gid(Product, 1))>>>>},
      h \in {<<>>, <<<<K_handle, VNull>>>>, <<<<K_handle, VStr(<<>>)>>>>, <<<<K_handle, th>>>>},
      t \in {<<>>, <<<<K_title, tx>>>>} }

\* a metafield record
Mf(namespace, key, type, value) ==
  VDict(<<<<K_namespace, VStr(namespace)>>, <<K_key, VStr(key)>>,
          <<K_type, VStr(type)>>, <<K_value, VStr(value)>>>>)

\* metafields lists: a text metafield, a list metafield whose value parses,
\* a list metafield whose value does not
MetafieldLists ==
  { VList(<<Mf(<<"n">>, <<"k">>, <<"t", "e", "x", "t">>, <<"v">>)>>),
    VList(<<Mf(<<"n">>, <<"k">>, K_list \o <<".", "t">>, <<"[", "\"", "a", "\"", ",", "7", "]">>)>>),
    VList(<<Mf(<<"n">>, <<"k">>, K_list \o <<".", "t">>, <<"[", "a">>)>>) }

\* collections lists: a collection with handle and title, one without title
CollectionLists ==
  { VList(<<VDict(<<<<K_handle, VStr(<<"c">>)>>, <<K_title, tx>>>>)>>),
    VList(<<VDict(<<<<K_handle, VStr(<<"c">>)>>>>)>>) }

\* the variants of a product: each with an id, a sku or none, and
\* metafields or none
GenericVariants(i) ==
  { VDict(<<<<K_id, VStr(Gid(ProductVariant, i))>>>> \o sku \o pr \o mf) :
      sku \in {<<>>, <<<<K_sku, VStr(<<"S", ToString(i)>>)>>>>},
      pr  \in {<<>>, <<<<K_price, VStr(t8)>>>>},
      mf  \in {<<>>} \cup {<<<<K_metafields, l>>>> : l \in MetafieldLists} }

RECURSIVE GenericVariantLists(_)
GenericVariantLists(n) ==
  IF n = 0 THEN {<<>>}
  ELSE LET smaller == GenericVariantLists(n - 1)
       IN  smaller \cup
           {Append(l, v) : l \in {x \in smaller : Len(x) = n - 1}, v \in GenericVariants(n)}

\* products with a handle and a title, with or without a variantsCount
\* property, metafields, collections and variants
AttrRecords ==
  { <<<<K_id, VStr(Gid(Product, 1))>>, <<K_handle, th>>, <<K_title, tx>>>>
      \o vc \o mf \o co \o va :
      vc \in {<<>>, <<<<K_variantsCount, VInt(2)>>>>},
      mf \in {<<>>} \cup {<<<<K_metafields, l>>>> : l \in MetafieldLists},
      co \in {<<>>} \cup {<<<<K_collections, l>>>> : l \in CollectionLists},
      va \in {<<>>} \cup {<<<<K_variants, VList(l)>>>> : l \in GenericVariantLists(1)} }

GenericInit ==
  /\ \/ gen_product \in IdRecords /\ gen_pid \in IdentifierArgs /\ gen_vid = VNull
     \/ gen_product \in AttrRecords /\ gen_pid = VStr(K_handle) /\ gen_vid \in {VNull, VStr(K_sku)}
  /\ gen_out = <<>>
  /\ gen_pc = "start"
  /\ CoreIdle /\ MergeIdle /\ LateIdle

\* lines 33-36 of create_products_iteratively: create_product returns
GenericsReturns ==
  /\ gen_pc = "start"
  /\ ~GenericsRaises(gen_product)
  /\ gen_out' = generics_create_product(gen_product, gen_pid, gen_vid)
  /\ gen_pc' = "returned"
  /\ UNCHANGED <<gen_product, gen_pid, gen_vid, coreVars, mergeVars, lateVars>>

\* lines 42-44 of create_products_iteratively: create_product raises and
\* the error is logged
GenericsRaised ==
  /\ gen_pc = "start"
  /\ GenericsRaises(gen_product)
  /\ gen_pc' = "raised"
  /\ UNCHANGED <<gen_product, gen_pid, gen_vid, gen_out, coreVars, mergeVars, lateVars>>

GenericNext == GenericsReturns \/ GenericsRaised

SpecGeneric == GenericInit /\ [][GenericNext]_vars

\* the candidates an identifier argument stands for
CandidatesOf(arg) ==
  CASE arg = VNull -> <<K_id>>
    [] arg = VStr(K_id) -> <<K_id>>
    [] arg = VStr(K_handle) -> <<K_handle>>
    [] arg = VStr(K_sku) -> <<K_sku>>
    [] arg = VStr(K_handle \o <<",">> \o K_title) -> <<K_handle, K_title>>
    [] arg = VStr(K_title \o <<",">> \o K_handle) -> <<K_title, K_handle>>

\* the field is present in the record and is not empty
PresentNonEmpty(record, field) ==
  DictHas(record, field) /\ DictGet(record, field) \notin {VNull, VStr(<<>>)}

\* the positions of the candidates that match the product at hand
Matching == {n \in 1..Len(CandidatesOf(gen_pid)) :
               PresentNonEmpty(gen_product, CandidatesOf(gen_pid)[n])}

\* C16: the id is the value of the first candidate that is present and not
\* empty in the record; the id field of the record when no candidate
\* matches; NOIDENTIFIERFOUND when there is no id field either; and the
\* candidate list is id alone when no list is given.
C16_IdentifierResolution ==
  gen_pc = "returned" =>
    gen_out.id =
      IF Matching # {}
      THEN DictGet(gen_product,
                   CandidatesOf(gen_pid)[CHOOSE n \in Matching : \A m \in Matching : n <= m])
      ELSE IF DictHas(gen_product, K_id) THEN DictGet(gen_product, K_id)
      ELSE VStr(K_NOIDENTIFIERFOUND)

\* two candidates both match and the id is the value of the first
C16_Witness ==
  /\ gen_pc = "returned"
  /\ gen_pid = VStr(K_title \o <<",">> \o K_handle)
  /\ Matching = {1, 2}
  /\ gen_out.id = tx

\* the properties of a record that are none of the three structural fields
PlainProperties(record) ==
  {n \in 1..Len(record) : record[n][1] \notin {K_variants, K_metafields, K_collections}}

\* the variants of the product at hand
InputVariants ==
  IF DictHas(gen_product, K_variants) THEN DictGet(gen_product, K_variants).v ELSE <<>>

\* C18: every property of the product other than variants, metafields and
\* collections is in the attributes under "sp." + its name with its value,
\* and every such property of a variant is in the attributes of the
\* variant under "sv." + its name; a name that contains one of the three
\* words, as variantsCount, is no exception.
C18_Namespacing ==
  gen_pc = "returned" =>
    /\ \A n \in PlainProperties(gen_product) :
         /\ DictHas(gen_out.attributes, K_sp \o <<".">> \o gen_product[n][1])
         /\ DictGet(gen_out.attributes, K_sp \o <<".">> \o gen_product[n][1]) = gen_product[n][2]
    /\ \A i \in 1..Len(InputVariants) : \A n \in PlainProperties(InputVariants[i].v) :
         /\ DictHas(gen_out.variants[i][2], K_sv \o <<".">> \o InputVariants[i].v[n][1])
         /\ DictGet(gen_out.variants[i][2], K_sv \o <<".">> \o InputVariants[i].v[n][1])
              = InputVariants[i].v[n][2]

(***************************************************************************)
(* The translation merge of the graph reconstruction                       *)
(***************************************************************************)
\* the record the Object Index holds for a root: the last of its records
RootRecord(id) ==
  stream[CHOOSE i \in 1..Len(stream) :
           /\ IsRootLine(stream[i]) /\ IdOf(stream[i].obj) = id
           /\ \A j \in (i + 1)..Len(stream) :
                ~(IsRootLine(stream[j]) /\ IdOf(stream[j].obj) = id)].obj

\* the entries of the translations list of a raw record
Entries(raw) == DictGet(raw, K_translations).v

\* the key an entry is written to
TargetKey(entry, rename) ==
  IF rename /\ DictGet(entry.v, K_key).v = K_body_html
  THEN K_descriptionHtml
  ELSE DictGet(entry.v, K_key).v

\* the sorted, hyphen-joined locales of the entries of the model, which are
\* in French and in German
ExpectedDone(raw) ==
  LET locales == {DictGet(Entries(raw)[n].v, K_locale).v : n \in 1..Len(Entries(raw))}
  IN  CASE locales = {}       -> <<>>
        [] locales = {fr}     -> fr
        [] locales = {de}     -> de
        [] locales = {de, fr} -> de \o <<"-">> \o fr

\* the entity is the raw record after the translation merge
Merged(entity, raw, rename) ==
  /\ ~DictHas(entity, K_translations)
  /\ DictHas(entity, K_translation_done)
  /\ DictGet(entity, K_translation_done) = VStr(ExpectedDone(raw))
  /\ \A n \in 1..Len(Entries(raw)) :
       /\ DictHas(entity, TargetKey(Entries(raw)[n], rename))
       /\ DictGet(entity, TargetKey(Entries(raw)[n], rename)) =
            DictGet(Entries(raw)[CHOOSE m \in 1..Len(Entries(raw)) :
                      /\ TargetKey(Entries(raw)[m], rename) = TargetKey(Entries(raw)[n], rename)
                      /\ \A l \in (m + 1)..Len(Entries(raw)) :
                           TargetKey(Entries(raw)[l], rename) # TargetKey(Entries(raw)[n], rename)].v,
                    K_value)
  /\ DictHas(entity, IF rename THEN K_body_html ELSE K_descriptionHtml)
       => DictHas(raw, IF rename THEN K_body_html ELSE K_descriptionHtml)

\* the entity is the raw record with its empty translations list
Unmerged(entity, raw) ==
  /\ DictHas(entity, K_translations)
  /\ DictGet(entity, K_translations) = VList(<<>>)
  /\ ~DictHas(entity, K_translation_done)
  /\ \A k \in DictKeys(raw) : DictHas(entity, k) /\ DictGet(entity, k) = DictGet(raw, k)

\* every product and every collection of a product, with the raw record it
\* was made from, satisfies P(entity, raw, rename)
ForEveryEntity(P(_, _, _)) ==
  \A i \in 1..Len(products) :
    /\ P(products[i], RootRecord(IdOf(products[i])), TRUE)
    /\ \A j \in 1..Len(CollectionsOf(products[i])) :
         P(CollectionsOf(products[i])[j].v,
           LastRecord(IdOf(CollectionsOf(products[i])[j].v), IdOf(products[i])), FALSE)

MergedIfListed(entity, raw, rename) ==
  DictHas(raw, K_translations) => Merged(entity, raw, rename)

MergedIfEntries(entity, raw, rename) ==
  /\ (DictHas(raw, K_translations) /\ Entries(raw) # <<>>) => Merged(entity, raw, rename)
  /\ (DictHas(raw, K_translations) /\ Entries(raw) = <<>>) => Unmerged(entity, raw)

\* C17 as stated: every product and every collection of a product whose
\* record has a translations list, of zero or more entries, has lost the
\* list, has translation_done equal to the sorted, hyphen-joined distinct
\* locales, and has each translated key at the value of the last entry for
\* it, body_html being written as descriptionHtml on products only.
C17_TranslationMerge ==
  pc = "done" => ForEveryEntity(MergedIfListed)

\* What the code does: the merge for a translations list of one or more
\* entries; a record with an empty translations list keeps the list and
\* gets no translation_done.
TranslationMergeOfEntries ==
  pc = "done" => ForEveryEntity(MergedIfEntries)

(***************************************************************************)
(* bloomreach_products.create_products: the market merge                   *)
(***************************************************************************)
K_sp_id     == <<"s", "p", "_", "i", "d">>
K_sp_handle_flat == <<"s", "p", "_", "h", "a", "n", "d", "l", "e">>
K_sp_markets == <<"s", "p", "_", "m", "a", "r", "k", "e", "t", "s">>
K_sp_markets_handle == <<"s", "p", "_", "m", "a", "r", "k", "e", "t", "s", "_", "h", "a", "n", "d", "l", "e">>
K_markets   == <<"m", "a", "r", "k", "e", "t", "s">>
K_rootUrls  == <<"r", "o", "o", "t", "U", "r", "l", "s">>
K_sp_market_ == <<"s", "p", "_", "m", "a", "r", "k", "e", "t", "_">>
K__url      == <<"_", "u", "r", "l">>
K_products_ == <<"p", "r", "o", "d", "u", "c", "t", "s", "/">>

\* str(v) of a text or of None, as an f-string writes it
FormatValue(v) == IF v.t = "str" THEN v.v ELSE <<"N", "o", "n", "e">>

\* lines 143-144
WithMarketLists(attributes, markets_info) ==
  DictSet(DictSet(attributes, K_sp_markets,
                  VList([i \in 1..Len(markets_info) |-> DictGet(markets_info[i].v, K_name)])),
          K_sp_markets_handle,
          VList([i \in 1..Len(markets_info) |-> DictGet(markets_info[i].v, K_handle)]))

\* lines 152-158: the attributes after the loop over the root URLs of a
\* market
RECURSIVE WithRootUrls(_, _, _, _)
WithRootUrls(attributes, root_urls, market_handle, product_handle) ==
  IF root_urls = <<>> THEN attributes
  ELSE WithRootUrls(
         IF /\ Truthy(DictGetOrNull(Head(root_urls).v, K_locale))
            /\ Truthy(DictGetOrNull(Head(root_urls).v, K_url))
         THEN DictSet(attributes,
                      K_sp_market_ \o market_handle \o <<"_">>
                        \o DictGet(Head(root_urls).v, K_locale).v \o K__url,
                      VStr(DictGet(Head(root_urls).v, K_url).v \o K_products_ \o product_handle))
         ELSE attributes,
         Tail(root_urls), market_handle, product_handle)

\* lines 149-158: the attributes after the loop over the markets
RECURSIVE WithMarketUrls(_, _, _)
WithMarketUrls(attributes, markets_info, product_handle) ==
  IF markets_info = <<>> THEN attributes
  ELSE WithMarketUrls(
         IF DictHas(Head(markets_info).v, K_rootUrls)
         THEN WithRootUrls(attributes, DictGet(Head(markets_info).v, K_rootUrls).v,
                           DictGet(Head(markets_info).v, K_handle).v, product_handle)
         ELSE attributes,
         Tail(markets_info), product_handle)

\* line 166: root_url.get('url', ''), a text when it is there
UrlOrEmpty(root_url) == IF DictHas(root_url, K_url) THEN DictGet(root_url, K_url).v ELSE <<>>

\* lines 164-169: the attributes after the loop over the root URLs of the
\* market of the run, which stops at the first URL written
RECURSIVE WithBaseUrl(_, _, _, _)
WithBaseUrl(attributes, root_urls, shopify_language, product_handle) ==
  IF root_urls = <<>> THEN attributes
  ELSE IF /\ DictGetOrNull(Head(root_urls).v, K_locale) = shopify_language
          /\ RStrip(UrlOrEmpty(Head(root_urls).v), {"/"}) # <<>>
  THEN DictSet(attributes, K_url,
               VStr(RStrip(UrlOrEmpty(Head(root_urls).v), {"/"})
                      \o <<"/">> \o K_products_ \o FormatValue(product_handle)))
  ELSE WithBaseUrl(attributes, Tail(root_urls), shopify_language, product_handle)

\* lines 162-169: the attributes after the loop over the markets
RECURSIVE WithMainUrl(_, _, _, _, _)
WithMainUrl(attributes, markets_info, shopify_market, shopify_language, product_handle) ==
  IF markets_info = <<>> THEN attributes
  ELSE WithMainUrl(
         IF /\ DictGet(Head(markets_info).v, K_handle) = shopify_market
            /\ DictHas(Head(markets_info).v, K_rootUrls)
         THEN WithBaseUrl(attributes, DictGet(Head(markets_info).v, K_rootUrls).v,
                          shopify_language, product_handle)
         ELSE attributes,
         Tail(markets_info), shopify_market, shopify_language, product_handle)

\* lines 160-169
WithMarketOfRun(attributes, markets_info, shopify_market, shopify_language) ==
  IF Truthy(shopify_market) /\ Truthy(shopify_language)
  THEN WithMainUrl(attributes, markets_info, shopify_market, shopify_language,
                   DictGetOrNull(attributes, K_sp_handle_flat))
  ELSE attributes

\* lines 146-158
WithUrlsOfMarkets(attributes, markets_info) ==
  IF Truthy(DictGetOrNull(attributes, K_sp_handle_flat))
  THEN WithMarketUrls(attributes, markets_info, DictGet(attributes, K_sp_handle_flat).v)
  ELSE attributes

\* lines 140-169: the attributes of a product that is in the market data
Enriched(attributes, markets_info, shopify_market, shopify_language) ==
  WithMarketOfRun(WithUrlsOfMarkets(WithMarketLists(attributes, markets_info), markets_info),
                  markets_info, shopify_market, shopify_language)

\* lines 137-138: the product is in the market data
InMarketData(attributes, market_data) ==
  /\ Truthy(DictGetOrNull(attributes, K_sp_id))
  /\ DictHas(market_data.v, DictGet(attributes, K_sp_id).v)

\* lines 137-138 without the test that the product is in the market data;
\* a product that is not there has no markets
MergedAlways(product, market_data, shopify_market, shopify_language) ==
  [product EXCEPT !.attributes =
     Enriched(@, IF InMarketData(@, market_data)
                 THEN DictGet(DictGet(market_data.v, DictGet(@, K_sp_id).v).v, K_markets).v
                 ELSE <<>>,
              shopify_market, shopify_language)]

\* lines 134-173: the product of line 132 after the merge
MergedWithMarkets(product, market_data, shopify_market, shopify_language) ==
  IF InMarketData(product.attributes, market_data)
  THEN [product EXCEPT !.attributes =
          Enriched(@, DictGet(DictGet(market_data.v, DictGet(@, K_sp_id).v).v, K_markets).v,
                   shopify_market, shopify_language)]
  ELSE product

\* lines 132-175: the record appended for a line on which create_product
\* returns
MergedLine(product, market_data, shopify_market, shopify_language) ==
  IF market_data = VNull THEN product
  ELSE MergedWithMarkets(product, market_data, shopify_market, shopify_language)

(***************************************************************************)
(* A line of create_products run on bounded products and market data       *)
(***************************************************************************)
MaxUrls == 2

en == <<"e", "n">>
eu == <<"e", "u">>
us == <<"u", "s">>
enCA == <<"e", "n", "-", "C", "A">>

\* root URLs with and without a trailing "/"
UrlTexts == {<<"u", "/">>, <<"u">>, <<"v", "/">>}

\* a root URL record
RootUrl(locale, url) == VDict(<<<<K_locale, VStr(locale)>>, <<K_url, VStr(url)>>>>)
RootUrlEntries == {RootUrl(l, u) : l \in {en, fr, enCA}, u \in UrlTexts}

\* the lists of one to MaxUrls root URLs
RootUrlLists == UNION {[1..n -> RootUrlEntries] : n \in 1..MaxUrls}

\* a market as load_market_data builds it, with root URLs or without
Markets(handle, name) ==
  {<<<<K_handle, VStr(handle)>>, <<K_name, VStr(name)>>>>}
  \cup {<<<<K_handle, VStr(handle)>>, <<K_name, VStr(name)>>, <<K_rootUrls, VList(l)>>>> :
          l \in RootUrlLists}

\* the first market of a list of two, with root URLs or without
FirstMarkets ==
  {<<<<K_handle, VStr(eu)>>, <<K_name, VStr(<<"E", "U">>)>>>>,
   <<<<K_handle, VStr(eu)>>, <<K_name, VStr(<<"E", "U">>)>>,
     <<K_rootUrls, VList(<<RootUrl(en, <<"u", "/">>)>>)>>>>}

\* the markets lists of a product, sorted by handle
MarketLists ==
  {<<VDict(m)>> : m \in Markets(eu, <<"E", "U">>) \cup Markets(us, <<"U", "S">>)}
  \cup {<<VDict(m), VDict(n)>> : m \in FirstMarkets, n \in Markets(us, <<"U", "S">>)}

\* the entry of a product in the market data
MarketEntry(id, markets) ==
  <<id, VDict(<<<<K_handle, th>>, <<K_title, tx>>, <<K_markets, VList(markets)>>>>)>>

\* no market data, market data without the product, market data with it
MarketData ==
  {VNull, VDict(<<>>),
   VDict(<<MarketEntry(Gid(Product, 2), <<VDict(<<<<K_handle, VStr(eu)>>, <<K_name, VStr(<<"E", "U">>)>>,
                                                  <<K_rootUrls, VList(<<RootUrl(en, <<"u", "/">>)>>)>>>>)>>)>>)}
  \cup {VDict(<<MarketEntry(Gid(Product, 1), l)>>) : l \in MarketLists}

K_sp_dot_id == <<"s", "p", ".", "i", "d">>

\* products with an id or none and a handle, an empty handle or none
MergeProducts ==
  {[id |-> th, attributes |-> a, variants |-> <<>>] :
     a \in { <<<<K_sp_dot_id, VStr(Gid(Product, 1))>>, <<K_sp_handle, th>>,
               <<K_sp_status, VStr(K_ACTIVE)>>>>,
             <<<<K_sp_dot_id, VStr(Gid(Product, 1))>>, <<K_sp_handle, VStr(<<>>)>>,
               <<K_sp_status, VStr(K_ACTIVE)>>>>,
             <<<<K_sp_dot_id, VStr(Gid(Product, 1))>>, <<K_sp_status, VStr(K_ACTIVE)>>>>,
             <<<<K_sp_handle, th>>, <<K_sp_status, VStr(K_ACTIVE)>>>> }}

MergeInit ==
  /\ mk_product \in MergeProducts
  /\ mk_market_data \in MarketData
  /\ mk_market \in {VNull, VStr(us)}
  /\ mk_language \in {VNull, VStr(en)}
  /\ mk_out = <<>>
  /\ mk_pc = "start"
  /\ CoreIdle /\ GenIdle /\ LateIdle

\* the record create_product returns
Returned(r) == [id |-> r.id, attributes |-> r.attributes, variants |-> r.variants]

\* lines 131-175: a line of the file, on which create_product returns
CreateProductsLine ==
  /\ mk_pc = "start"
  /\ ~create_product(mk_product).raised
  /\ mk_out' = MergedLine(Returned(create_product(mk_product)),
                          mk_market_data, mk_market, mk_language)
  /\ mk_pc' = "appended"
  /\ UNCHANGED <<mk_product, mk_market_data, mk_market, mk_language, coreVars, genVars, lateVars>>

\* line 132: create_product raises and nothing in create_products catches
\* it
CreateProductsRaises ==
  /\ mk_pc = "start"
  /\ create_product(mk_product).raised
  /\ mk_pc' = "raised"
  /\ UNCHANGED <<mk_product, mk_market_data, mk_market, mk_language, mk_out,
                 coreVars, genVars, lateVars>>

MergeNext == CreateProductsLine \/ CreateProductsRaises

SpecMerge == MergeInit /\ [][MergeNext]_vars

(***************************************************************************)
(* Properties of the market merge                                          *)
(***************************************************************************)
\* the identifier of the product of the line, null when it has none
ProductIdentifier == DictGetOrNull(mk_product.attributes, K_sp_dot_id)

\* market data is supplied and the product's identifier is a key of it
PresentInMapping ==
  /\ mk_market_data # VNull
  /\ ProductIdentifier # VNull
  /\ DictHas(mk_market_data.v, ProductIdentifier.v)

\* the record of the line when no market data is supplied
WithoutMarketData ==
  MergedLine(Returned(create_product(mk_product)), VNull, mk_market, mk_language)

\* the keys the merge writes
MarketKeys(attributes) == {k \in DictKeys(attributes) : Contains(k, <<"s", "p", "_", "m", "a", "r", "k", "e", "t">>)}

\* C19: for a product whose identifier is not in the market mapping, a run
\* with market data supplied does what a run without market data does: it
\* raises only if create_product raises, and the record it appends is the
\* record of the run without market data, with no sp_markets,
\* sp_markets_handle or sp_market_*_url key and the same url.
C19_AbsentPassesThrough ==
  (mk_pc # "start" /\ mk_market_data # VNull /\ ~PresentInMapping) =>
    /\ mk_pc = "raised" <=> create_product(mk_product).raised
    /\ mk_pc = "appended" =>
         /\ mk_out = WithoutMarketData
         /\ MarketKeys(mk_out.attributes) = {}
         /\ DictGet(mk_out.attributes, K_url) = DictGet(WithoutMarketData.attributes, K_url)

\* a product with an identifier went through a run whose market data has
\* another product only, with a market and a language of the run
C19_Witness ==
  /\ mk_pc = "appended"
  /\ mk_market_data # VNull
  /\ ProductIdentifier = VStr(Gid(Product, 1))
  /\ DictKeys(mk_market_data.v) = {Gid(Product, 2)}
  /\ mk_market = VStr(us)
  /\ mk_language = VStr(en)

\* the markets of the product of the line in the market data
MarketsOfProduct == DictGet(DictGet(mk_market_data.v, ProductIdentifier.v).v, K_markets).v

\* the root URLs a market advertises
RootUrlsOf(market) ==
  IF DictHas(market.v, K_rootUrls) THEN DictGet(market.v, K_rootUrls).v ELSE <<>>

\* the name of the attribute of a market and a root URL of it
MarketUrlKey(market, root_url) ==
  K_sp_market_ \o DictGet(market.v, K_handle).v \o <<"_">>
    \o DictGet(root_url.v, K_locale).v \o K__url

\* the market and the locale of the root URL are those of the run
Designated(market, root_url) ==
  /\ DictGet(market.v, K_handle) = mk_market
  /\ DictGet(root_url.v, K_locale) = mk_language

\* the record has the attribute of every root URL advertised for the
\* product, and its url is the attribute of the designated pair
MarketUrlsAgree ==
  \A i \in 1..Len(MarketsOfProduct) :
    \A j \in 1..Len(RootUrlsOf(MarketsOfProduct[i])) :
      /\ DictHas(mk_out.attributes, MarketUrlKey(MarketsOfProduct[i], RootUrlsOf(MarketsOfProduct[i])[j]))
      /\ Designated(MarketsOfProduct[i], RootUrlsOf(MarketsOfProduct[i])[j]) =>
           DictGet(mk_out.attributes, K_url) =
             DictGetOrNull(mk_out.attributes,
                           MarketUrlKey(MarketsOfProduct[i], RootUrlsOf(MarketsOfProduct[i])[j]))

\* C20: for a product in the market mapping the record has one
\* sp_market_{handle}_{locale}_url attribute for every root URL advertised
\* for it, and when the market and language of the run are advertised for
\* it, url equals the attribute of that pair.
C20_MarketUrls == (mk_pc = "appended" /\ PresentInMapping) => MarketUrlsAgree

\* every root URL advertised for the product ends with "/"
AllSlashed ==
  \A i \in 1..Len(MarketsOfProduct) :
    \A j \in 1..Len(RootUrlsOf(MarketsOfProduct[i])) :
      LET url == DictGet(RootUrlsOf(MarketsOfProduct[i])[j].v, K_url).v
      IN  url[Len(url)] = "/"

\* no market advertises a locale twice
LocalesUnique ==
  \A i \in 1..Len(MarketsOfProduct) :
    \A j, k \in 1..Len(RootUrlsOf(MarketsOfProduct[i])) :
      DictGet(RootUrlsOf(MarketsOfProduct[i])[j].v, K_locale)
        = DictGet(RootUrlsOf(MarketsOfProduct[i])[k].v, K_locale) => j = k

\* the attributes and the url agree for a product with a handle whose root
\* URLs all end with "/" and whose markets advertise a locale once
MarketUrlsWhenSlashed ==
  (/\ mk_pc = "appended"
   /\ PresentInMapping
   /\ AllSlashed
   /\ LocalesUnique
   /\ Truthy(DictGetOrNull(mk_product.attributes, K_sp_handle))) => MarketUrlsAgree

\* a run on a product with a handle, in the mapping, whose designated root
\* URL has no trailing "/"
UnslashedDesignated ==
  /\ mk_pc = "appended"
  /\ mk_product.attributes = <<<<K_sp_dot_id, VStr(Gid(Product, 1))>>, <<K_sp_handle, th>>,
                                <<K_sp_status, VStr(K_ACTIVE)>>>>
  /\ mk_market_data =
       VDict(<<MarketEntry(Gid(Product, 1),
                           <<VDict(<<<<K_handle, VStr(us)>>, <<K_name, VStr(<<"U", "S">>)>>,
                                     <<K_rootUrls, VList(<<RootUrl(en, <<"u">>)>>)>>>>)>>)>>)
  /\ mk_market = VStr(us)
  /\ mk_language = VStr(en)

\* a run on a product with a handle, in the mapping, whose designated
\* market advertises the language of the run with two root URLs
TwiceDesignated ==
  /\ mk_pc = "appended"
  /\ mk_product.attributes = <<<<K_sp_dot_id, VStr(Gid(Product, 1))>>, <<K_sp_handle, th>>,
                                <<K_sp_status, VStr(K_ACTIVE)>>>>
  /\ mk_market_data =
       VDict(<<MarketEntry(Gid(Product, 1),
                           <<VDict(<<<<K_handle, VStr(us)>>, <<K_name, VStr(<<"U", "S">>)>>,
                                     <<K_rootUrls, VList(<<RootUrl(en, <<"u", "/">>),
                                                           RootUrl(en, <<"v", "/">>)>>)>>>>)>>)>>)
  /\ mk_market = VStr(us)
  /\ mk_language = VStr(en)

(***************************************************************************)
(* The indexes during the second pass of parse_shopify_objects             *)
(***************************************************************************)
\* C22: once the first pass is over the object index and the index of the
\* children are only read: no step of the second pass adds a key to either
\* or changes a record of the object index.
C22_IndexesReadOnly ==
  [][pc = "assemble" => (objects' = objects /\ parent_to_children' = parent_to_children)]_vars

(***************************************************************************)
(* The price attribute of the emitted variants                             *)
(***************************************************************************)
\* the i-th input variant has a standard price that is a number
NumericPrice(i) ==
  /\ DictHas(InVariant(i), K_sv_price)
  /\ IsNumber(DictGet(InVariant(i), K_sv_price))

\* C30: every emitted variant whose standard price is a number has a price
\* attribute, whatever its compare-at price is.
C30_NumericPriceEmitted ==
  cp_pc = "returned" =>
    \A i \in 1..Len(cp_product.variants) :
      (Emitted(i) /\ NumericPrice(i)) => DictHas(OutVariant(i), price)

\* every emitted variant whose standard price is a number other than zero,
\* and whose compare-at price is absent, empty or a number other than
\* zero, has a price attribute
NonZeroPriceEmitted ==
  cp_pc = "returned" =>
    \A i \in 1..Len(cp_product.variants) :
      (/\ Emitted(i)
       /\ NumericPrice(i)
       /\ NumberOf(DictGet(InVariant(i), K_sv_price)) # 0
       /\ DictGetOrNull(InVariant(i), K_sv_compareAtPrice) \notin {VStr(tabc), VStr(t0)}) =>
         DictHas(OutVariant(i), price)

(***************************************************************************)
(* The keys of the records of create_products                              *)
(***************************************************************************)
\* every key of the attributes is what normalize_key makes of it
KeysClean(attributes) == \A k \in DictKeys(attributes) : normalize_key(k) = k

\* C29: every key of the attributes of every record create_products appends,
\* the keys of the market merge included, is normalizer-clean, for every
\* market handle and locale.
C29_KeysNormalized == mk_pc = "appended" => KeysClean(mk_out.attributes)

\* the keys of a record are clean when the merge did not enrich it, and the
\* keys other than those of the markets' URLs are clean in every record
KeysCleanBeforeMerge ==
  mk_pc = "appended" =>
    /\ ~PresentInMapping => KeysClean(mk_out.attributes)
    /\ \A k \in DictKeys(mk_out.attributes) :
         ~Contains(k, K_sp_market_) => normalize_key(k) = k

\* a run on a product in the mapping whose market advertises the locale
\* en-CA
HyphenLocale ==
  /\ mk_pc = "appended"
  /\ mk_product.attributes = <<<<K_sp_dot_id, VStr(Gid(Product, 1))>>, <<K_sp_handle, th>>,
                                <<K_sp_status, VStr(K_ACTIVE)>>>>
  /\ mk_market_data =
       VDict(<<MarketEntry(Gid(Product, 1),
                           <<VDict(<<<<K_handle, VStr(us)>>, <<K_name, VStr(<<"U", "S">>)>>,
                                     <<K_rootUrls, VList(<<RootUrl(enCA, <<"u", "/">>)>>)>>>>)>>)>>)

(***************************************************************************)
(* The two transform stages of main.py run on one product                  *)
(***************************************************************************)
K_status == <<"s", "t", "a", "t", "u", "s">>
K_sku_id == <<"s", "k", "u", ",", "i", "d">>

\* the i-th variant of a product: no property at all; an id with a sku (none,
\* empty, shared with the other variants, the number of the next variant)
\* and a price or none; a sku without id; an id with a list metafield whose
\* value does not parse
StageVariants(i) ==
  {VDict(<<>>), VDict(<<<<K_sku, VStr(<<"S">>)>>>>),
   VDict(<<<<K_id, VStr(Gid(ProductVariant, i))>>,
           <<K_metafields, VList(<<Mf(<<"n">>, <<"k">>, K_list \o <<".", "t">>, <<"[", "a">>)>>)>>>>)}
  \cup { VDict(<<<<K_id, VStr(Gid(ProductVariant, i))>>>> \o sku \o pr) :
           sku \in {<<>>, <<<<K_sku, VStr(<<>>)>>>>, <<<<K_sku, VStr(<<"S">>)>>>>,
                    <<<<K_sku, VStr(<<ToString(i + 1)>>)>>>>},
           pr  \in {<<>>, <<<<K_price, VStr(t8)>>>>} }

RECURSIVE StageVariantLists(_)
StageVariantLists(n) ==
  IF n = 0 THEN {<<>>}
  ELSE LET smaller == StageVariantLists(n - 1)
       IN  smaller \cup
           {Append(l, v) : l \in {x \in smaller : Len(x) = n - 1}, v \in StageVariants(n)}

\* reconstructed products with a handle, a status or none, and variants
StageProducts ==
  { <<<<K_id, VStr(Gid(Product, 1))>>, <<K_handle, th>>>> \o st
      \o <<<<K_variants, VList(l)>>>> :
      st \in {<<>>, <<<<K_status, VStr(K_ACTIVE)>>>>},
      l \in StageVariantLists(MaxVariants) }

\* main.py lines 112-115: the identifier arguments of the generic stage
StagesInit ==
  /\ gen_product \in StageProducts
  /\ gen_pid = VStr(K_handle)
  /\ gen_vid = VStr(K_sku_id)
  /\ gen_out = <<>>
  /\ gen_pc = "start"
  /\ cp_product = <<>>
  /\ cp_out = <<>>
  /\ cp_pc = "wait"
  /\ NormIdle /\ FlatIdle /\ ParseIdle /\ MergeIdle /\ LateIdle

\* the key of a JSON object written for a key of a dict
JsonKey(k) == IF k = VNull THEN VStr(<<"n", "u", "l", "l">>) ELSE k

\* the record the second stage reads from the line the first stage wrote
ReadBack(record) ==
  [id |-> record.id,
   attributes |-> record.attributes,
   variants |-> [i \in 1..Len(record.variants) |->
                   <<JsonKey(record.variants[i][1]), record.variants[i][2]>>]]

\* bloomreach_generics lines 33-36: the line is transformed and written
GenericsStage ==
  /\ gen_pc = "start"
  /\ ~GenericsRaises(gen_product)
  /\ gen_out' = generics_create_product(gen_product, gen_pid, gen_vid)
  /\ gen_pc' = "written"
  /\ UNCHANGED <<gen_product, gen_pid, gen_vid, prodVars,
                 normVars, flatVars, parseVars, mergeVars, lateVars>>

\* bloomreach_generics lines 42-44: the transform raises, the line is logged
\* and nothing is written
GenericsStageSkips ==
  /\ gen_pc = "start"
  /\ GenericsRaises(gen_product)
  /\ gen_pc' = "skipped"
  /\ UNCHANGED <<gen_product, gen_pid, gen_vid, gen_out, prodVars,
                 normVars, flatVars, parseVars, mergeVars, lateVars>>

\* bloomreach_products lines 131-175 without market data: create_product
\* returns on the line of the first stage
ProductsStage ==
  /\ gen_pc = "written" /\ cp_pc = "wait"
  /\ ~create_product(ReadBack(gen_out)).raised
  /\ cp_product' = ReadBack(gen_out)
  /\ cp_out' = create_product(ReadBack(gen_out))
  /\ cp_pc' = "returned"
  /\ UNCHANGED <<genVars, normVars, flatVars, parseVars, mergeVars, lateVars>>

\* bloomreach_products line 132: create_product raises on the line
ProductsStageRaises ==
  /\ gen_pc = "written" /\ cp_pc = "wait"
  /\ create_product(ReadBack(gen_out)).raised
  /\ cp_product' = ReadBack(gen_out)
  /\ cp_pc' = "raised"
  /\ UNCHANGED <<cp_out, genVars, normVars, flatVars, parseVars, mergeVars, lateVars>>

StagesNext ==
  \/ GenericsStage
  \/ GenericsStageSkips
  \/ ProductsStage
  \/ ProductsStageRaises

SpecStages == StagesInit /\ [][StagesNext]_vars

\* the variants of the product given to the first stage
FedVariants == DictGet(gen_product, K_variants).v

\* the variant has a property with a value that is not empty
WithValue(variant) == \E i \in 1..Len(variant.v) : ~is_empty_value(variant.v[i][2])

\* C28: across the two stages no variant is lost through a key collision:
\* the variants map of the output has as many entries as the product has
\* input variants with a non-empty attribute map, also when variants share a
\* sku or have none.
C28_NoVariantLost ==
  cp_pc = "returned" =>
    Len(cp_out.variants) = Cardinality({i \in 1..Len(FedVariants) : WithValue(FedVariants[i])})

\* the key of a variant in the output: its sku, or the last segment of its id
StageKey(variant) ==
  IF Truthy(DictGetOrNull(variant.v, K_sku)) THEN DictGet(variant.v, K_sku).v
  ELSE IF DictHas(variant.v, K_id) THEN LastSegment(DictGet(variant.v, K_id).v)
  ELSE K_NOIDENTIFIERFOUND

\* no variant is lost when the keys of the variants with a value differ
VariantsKeptWhenKeysDiffer ==
  (/\ cp_pc = "returned"
   /\ \A i, j \in 1..Len(FedVariants) :
        (/\ WithValue(FedVariants[i]) /\ WithValue(FedVariants[j])
         /\ StageKey(FedVariants[i]) = StageKey(FedVariants[j])) => i = j) =>
    Len(cp_out.variants) = Cardinality({i \in 1..Len(FedVariants) : WithValue(FedVariants[i])})

(***************************************************************************)
(* create_products_iteratively run on bounded files                        *)
(***************************************************************************)
MaxLines == 3

\* a product of the file with the handle given, with or without a list
\* metafield whose value does not parse
FileProduct(handle, metafields) ==
  <<<<K_id, VStr(Gid(Product, 1))>>, <<K_handle, VStr(handle)>>>> \o metafields

\* the lines of a file: text that is no JSON, two products the transform
\* accepts, a product on which it raises
FileLines ==
  {Unparsable,
   Line(FileProduct(<<"h">>, <<>>)),
   Line(FileProduct(<<"g">>, <<>>)),
   Line(FileProduct(<<"h">>,
          <<<<K_metafields, VList(<<Mf(<<"n">>, <<"k">>, K_list \o <<".", "t">>, <<"[", "a">>)>>)>>>>))}

IterInit ==
  /\ it_lines \in UNION {[1..n -> FileLines] : n \in 0..MaxLines}
  /\ it_pos = 1
  /\ it_written = <<>>
  /\ it_count = 0
  /\ it_pc = "loop"
  /\ CoreIdle /\ GenIdle /\ MergeIdle /\ LoadIdle /\ MainIdle /\ BulkIdle

\* lines 33-34: json.loads or create_product raises on the line
LineRaises(line) == IF line.ok THEN GenericsRaises(line.obj) ELSE TRUE

\* lines 32-44 with the count incremented on a failing line as well
ProcessLineCountAll(written, count, line) ==
  IF LineRaises(line) THEN [written |-> written, count |-> count + 1]
  ELSE [written |-> Append(written, generics_create_product(line.obj, VStr(K_handle), VStr(K_sku_id))),
        count |-> count + 1]

\* lines 32-44: the records written and the count after a line
ProcessLine(written, count, line) ==
  IF LineRaises(line) THEN [written |-> written, count |-> count]
  ELSE [written |-> Append(written, generics_create_product(line.obj, VStr(K_handle), VStr(K_sku_id))),
        count |-> count + 1]

\* lines 30-36: the line is transformed, written and counted
IterWrites ==
  /\ it_pc = "loop" /\ it_pos <= Len(it_lines)
  /\ ~LineRaises(it_lines[it_pos])
  /\ it_written' = ProcessLine(it_written, it_count, it_lines[it_pos]).written
  /\ it_count' = ProcessLine(it_written, it_count, it_lines[it_pos]).count
  /\ it_pos' = it_pos + 1
  /\ UNCHANGED <<it_lines, it_pc, coreVars, genVars, mergeVars, loadVars, mainVars, bulkVars>>

\* lines 42-44: the line raises, the error is logged and the loop goes on
IterSkips ==
  /\ it_pc = "loop" /\ it_pos <= Len(it_lines)
  /\ LineRaises(it_lines[it_pos])
  /\ it_written' = ProcessLine(it_written, it_count, it_lines[it_pos]).written
  /\ it_count' = ProcessLine(it_written, it_count, it_lines[it_pos]).count
  /\ it_pos' = it_pos + 1
  /\ UNCHANGED <<it_lines, it_pc, coreVars, genVars, mergeVars, loadVars, mainVars, bulkVars>>

\* lines 46-49: the file is exhausted and the count is returned
IterReturns ==
  /\ it_pc = "loop" /\ it_pos > Len(it_lines)
  /\ it_pc' = "returned"
  /\ UNCHANGED <<it_lines, it_pos, it_written, it_count,
                 coreVars, genVars, mergeVars, loadVars, mainVars, bulkVars>>

IterNext == IterWrites \/ IterSkips \/ IterReturns

SpecIter == IterInit /\ [][IterNext]_vars

\* the line parses and the transform accepts its product
GoodLine(line) == line.ok /\ ~GenericsRaises(line.obj)

\* the records of the good lines among the first n lines, in input order
RECURSIVE RecordsOf(_)
RecordsOf(n) ==
  IF n = 0 THEN <<>>
  ELSE IF GoodLine(it_lines[n])
       THEN Append(RecordsOf(n - 1),
                   generics_create_product(it_lines[n].obj, VStr(K_handle), VStr(K_sku_id)))
       ELSE RecordsOf(n - 1)

\* C25: a line that fails to parse or to transform is skipped without
\* stopping the pass: the pass always reaches the end of the file, the
\* output holds exactly one record for every other line, in input order, and
\* the count returned is the number of records written.
C25_FailingLinesSkipped ==
  /\ it_pc = "loop" => it_written = RecordsOf(it_pos - 1) /\ it_count = Len(it_written)
  /\ it_pc = "returned" =>
       /\ it_pos = Len(it_lines) + 1
       /\ it_written = RecordsOf(Len(it_lines))
       /\ it_count = Len(it_written)

\* a pass has returned on a file whose failing lines, one that is no JSON and
\* one the transform rejects, stand before a good line
C25_Witness ==
  /\ it_pc = "returned"
  /\ Len(it_lines) = 3
  /\ ~it_lines[1].ok
  /\ it_lines[2].ok /\ GenericsRaises(it_lines[2].obj)
  /\ GoodLine(it_lines[3])
  /\ it_count = 1

(***************************************************************************)
(* load_market_data                                                        *)
(***************************************************************************)
K_gid_Market  == <<"g", "i", "d", ":", "/", "/", "s", "h", "o", "p", "i", "f", "y", "/", "M", "a", "r", "k", "e", "t", "/">>
K_gid_Product == <<"g", "i", "d", ":", "/", "/", "s", "h", "o", "p", "i", "f", "y", "/", "P", "r", "o", "d", "u", "c", "t", "/">>

\* s.startswith(prefix)
StartsWith(s, prefix) == Len(s) >= Len(prefix) /\ SubSeq(s, 1, Len(prefix)) = prefix

\* data.get("id", "")
IdOrEmpty(data) == IF DictHas(data, K_id) THEN DictGet(data, K_id).v ELSE <<>>

\* lines 318, 326 and 335: the kind of a record
IsMarketRecord(data)  == StartsWith(IdOrEmpty(data), K_gid_Market)
IsUrlsRecord(data)    == ~IsMarketRecord(data) /\ DictHas(data, K_rootUrls)
IsProductRecord(data) == StartsWith(IdOrEmpty(data), K_gid_Product)

\* lines 315-327 and 332-341: json.loads raises on the line or the record
\* lacks a key the pass reads
RecordRaises(line) ==
  IF ~line.ok THEN TRUE
  ELSE IF IsMarketRecord(line.obj)
  THEN ~({K_parentId, K_handle, K_name} \subseteq DictKeys(line.obj))
  ELSE IF IsUrlsRecord(line.obj) /\ ~DictHas(line.obj, K_parentId) THEN TRUE
  ELSE IF IsProductRecord(line.obj)
  THEN ~({K_parentId, K_handle} \subseteq DictKeys(line.obj))
  ELSE FALSE

\* lines 318-323: markets_by_publication after the first pass
RECURSIVE markets_by_publication(_)
markets_by_publication(lines) ==
  IF lines = <<>> THEN <<>>
  ELSE LET data == lines[Len(lines)].obj
           before == markets_by_publication(SubSeq(lines, 1, Len(lines) - 1))
       IN  IF IsMarketRecord(data)
           THEN DictSet(before, DictGet(data, K_parentId).v,
                        <<<<K_id, DictGet(data, K_id)>>, <<K_handle, DictGet(data, K_handle)>>,
                          <<K_name, DictGet(data, K_name)>>>>)
           ELSE before

\* lines 326-327: urls_by_market after the first pass
RECURSIVE urls_by_market(_)
urls_by_market(lines) ==
  IF lines = <<>> THEN <<>>
  ELSE LET data == lines[Len(lines)].obj
           before == urls_by_market(SubSeq(lines, 1, Len(lines) - 1))
       IN  IF IsUrlsRecord(data)
           THEN DictSet(before, DictGet(data, K_parentId).v, DictGet(data, K_rootUrls))
           ELSE before

\* lines 346-354: the market of a publication as a product lists it
MarketOf(market_info, urls) ==
  VDict(<<<<K_handle, DictGet(market_info, K_handle)>>, <<K_name, DictGet(market_info, K_name)>>>>
        \o IF Truthy(urls) THEN <<<<K_rootUrls, urls>>>> ELSE <<>>)

\* lines 357-358: the markets of a product with a market appended unless one
\* of them has its handle
WithMarket(markets, market) ==
  IF \E i \in 1..Len(markets) : DictGet(markets[i].v, K_handle) = DictGet(market.v, K_handle)
  THEN markets
  ELSE Append(markets, market)

\* lines 309 and 336-358: the entry of a product after one of its records
ProductAfter(info, data, by_publication, by_market) ==
  <<<<K_handle, DictGet(data, K_handle)>>,
    <<K_title, IF DictHas(data, K_title) THEN DictGet(data, K_title) ELSE VStr(<<>>)>>,
    <<K_markets,
      VList(IF DictHas(by_publication, DictGet(data, K_parentId).v)
            THEN WithMarket(DictGet(info, K_markets).v,
                            MarketOf(DictGet(by_publication, DictGet(data, K_parentId).v),
                                     DictGetOrNull(by_market,
                                       DictGet(DictGet(by_publication, DictGet(data, K_parentId).v), K_id).v)))
            ELSE DictGet(info, K_markets).v)>>>>

\* line 309: the entry the defaultdict makes for a new product
NewProduct == <<<<K_handle, VStr(<<>>)>>, <<K_title, VStr(<<>>)>>, <<K_markets, VList(<<>>)>>>>

\* lines 330-358: products after the second pass
RECURSIVE SecondPass(_, _, _)
SecondPass(lines, by_publication, by_market) ==
  IF lines = <<>> THEN <<>>
  ELSE LET data == lines[Len(lines)].obj
           before == SecondPass(SubSeq(lines, 1, Len(lines) - 1), by_publication, by_market)
       IN  IF IsProductRecord(data)
           THEN DictSet(before, DictGet(data, K_id).v,
                        ProductAfter(IF DictHas(before, DictGet(data, K_id).v)
                                     THEN DictGet(before, DictGet(data, K_id).v)
                                     ELSE NewProduct,
                                     data, by_publication, by_market))
           ELSE before

\* line 365 left out: the markets in the order of the product's records
Unsorted(markets) == markets

\* line 365: markets.sort(key=handle), a stable sort
RECURSIVE SortedByHandle(_)
SortedByHandle(markets) ==
  IF markets = <<>> THEN <<>>
  ELSE LET least == CHOOSE i \in 1..Len(markets) :
                      /\ \A j \in 1..Len(markets) :
                           ~TextLess(DictGet(markets[j].v, K_handle).v, DictGet(markets[i].v, K_handle).v)
                      /\ \A j \in 1..(i - 1) :
                           DictGet(markets[j].v, K_handle) # DictGet(markets[i].v, K_handle)
       IN  <<markets[least]>>
             \o SortedByHandle(SubSeq(markets, 1, least - 1) \o SubSeq(markets, least + 1, Len(markets)))

\* lines 361-366: the products with a market, their markets sorted
RECURSIVE ResultOf(_)
ResultOf(product_entries) ==
  IF product_entries = <<>> THEN <<>>
  ELSE LET info == Head(product_entries)[2]
       IN  (IF DictGet(info, K_markets).v # <<>>
            THEN <<<<Head(product_entries)[1],
                     VDict(DictSet(info, K_markets,
                                   VList(SortedByHandle(DictGet(info, K_markets).v))))>>>>
            ELSE <<>>)
           \o ResultOf(Tail(product_entries))

\* lines 303-374: [raised |-> TRUE] or the mapping returned
load_market_data(lines) ==
  IF \E i \in 1..Len(lines) : RecordRaises(lines[i]) THEN [raised |-> TRUE]
  ELSE [raised |-> FALSE,
        result |-> VDict(ResultOf(SecondPass(lines, markets_by_publication(lines),
                                             urls_by_market(lines))))]

(***************************************************************************)
(* load_market_data run on bounded market files                            *)
(***************************************************************************)
MaxFile == 4

Publication == <<"P", "u", "b", "l", "i", "c", "a", "t", "i", "o", "n">>
Market == <<"M", "a", "r", "k", "e", "t">>
ca == <<"c", "a">>

\* the record of a market of a publication
MarketRecord(n, publication, handle, name) ==
  Line(<<<<K_id, VStr(Gid(Market, n))>>, <<K_handle, VStr(handle)>>, <<K_name, VStr(name)>>,
         <<K_parentId, VStr(Gid(Publication, publication))>>>>)

\* the record of a product of a publication
ProductRecord(n, publication) ==
  Line(<<<<K_id, VStr(Gid(Product, n))>>, <<K_handle, th>>, <<K_title, tx>>,
         <<K_parentId, VStr(Gid(Publication, publication))>>>>)

\* the records of a market file: the markets of two publications, a second
\* market of the first publication, the root URLs of the first market, a
\* product in both publications, a product of a publication without market,
\* a line that is no JSON, a market without publication
MarketFileLines ==
  {MarketRecord(1, 1, us, <<"U", "S">>),
   MarketRecord(2, 2, eu, <<"E", "U">>),
   MarketRecord(3, 1, ca, <<"C", "A">>),
   Line(<<<<K_rootUrls, VList(<<RootUrl(en, <<"u", "/">>)>>)>>,
          <<K_parentId, VStr(Gid(Market, 1))>>>>),
   ProductRecord(1, 1),
   ProductRecord(1, 2),
   ProductRecord(2, 3),
   Unparsable,
   Line(<<<<K_id, VStr(Gid(Market, 1))>>, <<K_handle, VStr(us)>>, <<K_name, VStr(<<"U", "S">>)>>>>)}

\* the files of up to MaxFile different lines, in every order
MarketFiles ==
  UNION {{f \in [1..n -> MarketFileLines] : \A i, j \in 1..n : f[i] = f[j] => i = j} :
           n \in 0..MaxFile}

LoadInit ==
  /\ lm_lines \in MarketFiles
  /\ lm_out = <<>>
  /\ lm_pc = "start"
  /\ CoreIdle /\ GenIdle /\ MergeIdle /\ IterIdle /\ MainIdle /\ BulkIdle

\* line 368: the mapping is returned
LoadReturns ==
  /\ lm_pc = "start"
  /\ ~load_market_data(lm_lines).raised
  /\ lm_out' = load_market_data(lm_lines).result
  /\ lm_pc' = "returned"
  /\ UNCHANGED <<lm_lines, coreVars, genVars, mergeVars, iterVars, mainVars, bulkVars>>

\* lines 372-374: the exception is logged and raised again
LoadRaises ==
  /\ lm_pc = "start"
  /\ load_market_data(lm_lines).raised
  /\ lm_pc' = "raised"
  /\ UNCHANGED <<lm_lines, lm_out, coreVars, genVars, mergeVars, iterVars, mainVars, bulkVars>>

LoadNext == LoadReturns \/ LoadRaises

SpecLoad == LoadInit /\ [][LoadNext]_vars

\* each publication has at most one market and each market at most one
\* record of root URLs
OneMarketEach(lines) ==
  \A i, j \in 1..Len(lines) :
    (/\ lines[i].ok /\ lines[j].ok
     /\ DictHas(lines[i].obj, K_parentId) /\ DictHas(lines[j].obj, K_parentId)
     /\ DictGet(lines[i].obj, K_parentId) = DictGet(lines[j].obj, K_parentId)
     /\ IF IsMarketRecord(lines[i].obj) THEN IsMarketRecord(lines[j].obj)
        ELSE IsUrlsRecord(lines[i].obj) /\ IsUrlsRecord(lines[j].obj)) =>
      lines[i] = lines[j]

\* the lines in the order of a permutation of their positions
Permuted(lines, p) == [i \in 1..Len(lines) |-> lines[p[i]]]

\* two mappings with the same keys and the same entry under each
SameMapping(a, b) ==
  /\ DictKeys(a.v) = DictKeys(b.v)
  /\ \A k \in DictKeys(a.v) : DictGet(a.v, k) = DictGet(b.v, k)

\* the markets of an entry of the mapping
MarketsIn(entry) == DictGet(entry.v, K_markets).v

MaxProducts == 2

\* lines 128-177: [raised |-> TRUE] when create_product raises on a line,
\* or the list of the records of the lines
RECURSIVE create_products(_, _, _, _)
create_products(lines, market_data, shopify_market, shopify_language) ==
  IF lines = <<>> THEN [raised |-> FALSE, products |-> <<>>]
  ELSE LET before == create_products(SubSeq(lines, 1, Len(lines) - 1), market_data,
                                     shopify_market, shopify_language)
           product == lines[Len(lines)]
       IN  IF before.raised THEN before
           ELSE IF create_product(product).raised THEN [raised |-> TRUE]
           ELSE [raised |-> FALSE,
                 products |-> Append(before.products,
                                     MergedLine(Returned(create_product(product)), market_data,
                                                shopify_market, shopify_language))]

\* no --market-data argument, the path of a file that does not exist, a file
NoPath == [given |-> FALSE]
Missing == [given |-> TRUE, exists |-> FALSE]
MarketFile(lines) == [given |-> TRUE, exists |-> TRUE, lines |-> lines]

\* lines 311 and 372-374: load_market_data raises on the file
LoadFails(file) == IF file.exists THEN load_market_data(file.lines).raised ELSE TRUE

\* lines 387-396 without the try: the failure of load_market_data leaves
\* main
AfterLoadUncaught(file) ==
  IF ~file.given THEN [pc |-> "loaded", market_data |-> VNull]
  ELSE IF LoadFails(file) THEN [pc |-> "raised", market_data |-> VNull]
  ELSE [pc |-> "loaded", market_data |-> load_market_data(file.lines).result]

\* lines 387-396: the market data main goes on with
AfterLoad(file) ==
  IF ~file.given THEN [pc |-> "loaded", market_data |-> VNull]
  ELSE IF LoadFails(file) THEN [pc |-> "loaded", market_data |-> VNull]
  ELSE [pc |-> "loaded", market_data |-> load_market_data(file.lines).result]

\* the products of a file: one of the market file, one of no market, one
\* without handle
MainProducts ==
  {[id |-> th, attributes |-> a, variants |-> <<>>] :
     a \in { <<<<K_sp_dot_id, VStr(Gid(Product, 1))>>, <<K_sp_handle, th>>,
               <<K_sp_status, VStr(K_ACTIVE)>>>>,
             <<<<K_sp_dot_id, VStr(Gid(Product, 2))>>, <<K_sp_handle, th>>,
               <<K_sp_status, VStr(K_ACTIVE)>>>>,
             <<<<K_sp_dot_id, VStr(Gid(Product, 1))>>, <<K_sp_status, VStr(K_ACTIVE)>>>> }}

\* the market files: none given, a missing file, an empty file, files that
\* load, a file with a line that is no JSON, a file with a market without
\* publication
MainMarketFiles ==
  {NoPath, Missing, MarketFile(<<>>),
   MarketFile(<<MarketRecord(1, 1, us, <<"U", "S">>), ProductRecord(1, 1)>>),
   MarketFile(<<MarketRecord(1, 1, us, <<"U", "S">>), ProductRecord(1, 1),
                Line(<<<<K_rootUrls, VList(<<RootUrl(en, <<"u", "/">>)>>)>>,
                       <<K_parentId, VStr(Gid(Market, 1))>>>>)>>),
   MarketFile(<<MarketRecord(1, 1, us, <<"U", "S">>), ProductRecord(1, 1), Unparsable>>),
   MarketFile(<<Line(<<<<K_id, VStr(Gid(Market, 1))>>, <<K_handle, VStr(us)>>,
                       <<K_name, VStr(<<"U", "S">>)>>>>),
                ProductRecord(1, 1)>>)}

MainInit ==
  /\ bm_products \in UNION {[1..n -> MainProducts] : n \in 0..MaxProducts}
  /\ bm_market_file \in MainMarketFiles
  /\ bm_market_data = VNull
  /\ bm_written = <<>>
  /\ bm_pc = "start"
  /\ CoreIdle /\ GenIdle /\ MergeIdle /\ IterIdle /\ LoadIdle /\ BulkIdle

\* lines 386-396: the market data is loaded, or the failure is logged
MainLoads ==
  /\ bm_pc = "start"
  /\ bm_pc' = AfterLoad(bm_market_file).pc
  /\ bm_market_data' = AfterLoad(bm_market_file).market_data
  /\ UNCHANGED <<bm_products, bm_market_file, bm_written,
                 coreVars, genVars, mergeVars, iterVars, loadVars, bulkVars>>

\* lines 399-408: the products are derived and written
MainWrites ==
  /\ bm_pc = "loaded"
  /\ ~create_products(bm_products, bm_market_data, VStr(us), VStr(en)).raised
  /\ bm_written' = create_products(bm_products, bm_market_data, VStr(us), VStr(en)).products
  /\ bm_pc' = "returned"
  /\ UNCHANGED <<bm_products, bm_market_file, bm_market_data,
                 coreVars, genVars, mergeVars, iterVars, loadVars, bulkVars>>

\* line 399: create_product raises on a line and nothing is written
MainRaises ==
  /\ bm_pc = "loaded"
  /\ create_products(bm_products, bm_market_data, VStr(us), VStr(en)).raised
  /\ bm_pc' = "raised"
  /\ UNCHANGED <<bm_products, bm_market_file, bm_market_data, bm_written,
                 coreVars, genVars, mergeVars, iterVars, loadVars, bulkVars>>

MainNext == MainLoads \/ MainWrites \/ MainRaises

SpecMain == MainInit /\ [][MainNext]_vars

\* a market file was given and load_market_data raised on it
LoadFailed == bm_market_file.given /\ LoadFails(bm_market_file)

\* create_product returns on every line of the products file
EveryLineDerives == \A i \in 1..Len(bm_products) : ~create_product(bm_products[i]).raised

\* C21: when loading the market data fails, main goes on without it: it
\* derives and writes the record of every product, none with an attribute of
\* the markets, and returns; it raises only if create_product raises on a
\* line, as it does without a market file.
C21_LoadFailureSkipsEnrichment ==
  (bm_pc # "start" /\ LoadFailed) =>
    /\ bm_pc # "raised" \/ ~EveryLineDerives
    /\ bm_market_data = VNull
    /\ bm_pc = "returned" =>
         /\ Len(bm_written) = Len(bm_products)
         /\ \A i \in 1..Len(bm_products) :
              /\ bm_written[i] = Returned(create_product(bm_products[i]))
              /\ MarketKeys(bm_written[i].attributes) = {}

\* main returned after load_market_data raised on a line that is no JSON, in
\* a file that lists the first of the two products written
C21_Witness ==
  /\ bm_pc = "returned"
  /\ bm_market_file.given /\ bm_market_file.exists
  /\ Len(bm_market_file.lines) = 3 /\ ~bm_market_file.lines[3].ok
  /\ Len(bm_written) = 2
  /\ DictGetOrNull(bm_products[1].attributes, K_sp_dot_id) = VStr(Gid(Product, 1))

(***************************************************************************)
(* graphql: the polled functions of the bulk operations                    *)
(***************************************************************************)
K_job_id == <<"j", "o", "b", "_", "i", "d">>
K_market_job_id == <<"m", "a", "r", "k", "e", "t", "_", "j", "o", "b", "_", "i", "d">>
K_object_count == <<"o", "b", "j", "e", "c", "t", "_", "c", "o", "u", "n", "t">>
S_already_in_progress ==
  <<"a", "l", "r", "e", "a", "d", "y", " ", "i", "n", " ", "p", "r", "o", "g", "r", "e", "s", "s">>
BulkOperation == <<"B", "u", "l", "k", "O", "p", "e", "r", "a", "t", "i", "o", "n">>

\* a call of a polled function: it returns True, returns False or raises,
\* and leaves the context
True == "True"
False == "False"
RuntimeError == "RuntimeError"
Outcome(result, context) == [result |-> result, context |-> context]

\* lines 56-76 and 92-111: the response to a submission; errors is the presence
\* of the key "errors", bulkOperation the value at
\* data.bulkOperationRunQuery.bulkOperation, result the text of the user
\* errors of the response
Submission(response, context, key) ==
  IF response.errors THEN Outcome(RuntimeError, context)
  ELSE IF response.bulkOperation # VNull
       THEN Outcome(True, DictSet(context, key, DictGet(response.bulkOperation.v, K_id)))
  ELSE IF Contains(response.result, S_already_in_progress) THEN Outcome(False, context)
  ELSE Outcome(RuntimeError, context)

\* lines 16-76
export_jsonl(response, context) == Submission(response, context, K_job_id)

\* lines 79-115
export_market_jsonl(response, context) == Submission(response, context, K_market_job_id)

\* line 152: object_count == 0, of a count the response gives as a number
\* or as text
IsZero(object_count) == object_count.t = "int" /\ object_count.v = 0

Unsuccessful == {"CANCELED", "CANCELING", "EXPIRED", "FAILED"}

\* lines 117-169 with CANCELING taken for a job still under way
get_jsonl_url_canceling(response, context) ==
  IF response.errors THEN Outcome(RuntimeError, context)
  ELSE IF response.status = "COMPLETED"
       THEN IF IsZero(response.objectCount) \/ response.url = VNull
            THEN Outcome(True, DictSet(DictSet(context, K_url, VNull),
                                       K_object_count, response.objectCount))
            ELSE Outcome(True, DictSet(DictSet(context, K_url, response.url),
                                       K_object_count, response.objectCount))
  ELSE IF response.status \in Unsuccessful \ {"CANCELING"} THEN Outcome(RuntimeError, context)
  ELSE Outcome(False, context)

\* lines 117-169: the response to the query of a job; errors is the presence
\* of the key "errors", status, objectCount and url the fields of data.node
get_jsonl_url(response, context) ==
  IF response.errors THEN Outcome(RuntimeError, context)
  ELSE IF response.status = "COMPLETED"
       THEN IF IsZero(response.objectCount) \/ response.url = VNull
            THEN Outcome(True, DictSet(DictSet(context, K_url, VNull),
                                       K_object_count, response.objectCount))
            ELSE Outcome(True, DictSet(DictSet(context, K_url, response.url),
                                       K_object_count, response.objectCount))
  ELSE IF response.status \in Unsuccessful THEN Outcome(RuntimeError, context)
  ELSE Outcome(False, context)

\* lines 183-189: the cache file exists and is younger than the maximum age
is_market_cache_valid(cache, max_age_hours) ==
  IF ~cache.exists THEN FALSE ELSE cache.age < max_age_hours

\* lines 201-206: the cache file, or None
get_cached_market_file(cache, max_age_hours) ==
  IF is_market_cache_valid(cache, max_age_hours) THEN cache ELSE VNull

\* lines 268-271 without the test of start_date
cached_market_file_any_feed(args, cache) ==
  IF args.market_cache_enabled
  THEN get_cached_market_file(cache, args.market_cache_max_age_hours)
  ELSE VNull

\* lines 268-271: the cached market file the run uses, or None
cached_market_file(args, cache) ==
  IF args.start_date # VNull /\ args.market_cache_enabled
  THEN get_cached_market_file(cache, args.market_cache_max_age_hours)
  ELSE VNull

(***************************************************************************)
(* graphql.get_shopify_jsonl_fp                                            *)
(***************************************************************************)
\* the calls polling.poll makes before its timeout, the greatest maximum age
\* of the cache in hours, the number of objects of a job that found some
MaxPolls == 2
MaxHours == 2
SomeObjects == 3

JobId(n) == VStr(Gid(BulkOperation, n))

\* the responses to a submission: an error response, the job accepted,
\* another operation under way, the job rejected with another reason and
\* with none
SubmitResponses(n) ==
  {[errors |-> TRUE, bulkOperation |-> VNull, result |-> <<>>],
   [errors |-> FALSE, bulkOperation |-> VDict(<<<<K_id, JobId(n)>>>>), result |-> <<>>],
   [errors |-> FALSE, bulkOperation |-> VNull,
    result |-> <<"A", " ">> \o S_already_in_progress \o <<":", " ", "1">>],
   [errors |-> FALSE, bulkOperation |-> VNull, result |-> <<"d", "e", "n", "i", "e", "d">>],
   [errors |-> FALSE, bulkOperation |-> VNull, result |-> <<>>]}

Statuses == {"CREATED", "RUNNING", "COMPLETED", "CANCELING", "CANCELED", "FAILED", "EXPIRED"}

\* the responses to the query of a job: an error response, and for each
\* status a count given as a number or as text; the service gives a url
\* when the job is completed and found objects
JobResponses ==
  {[errors |-> TRUE, status |-> "", objectCount |-> VNull, url |-> VNull]}
  \cup {[errors |-> FALSE, status |-> status, objectCount |-> object_count,
         url |-> IF status = "COMPLETED" /\ object_count \in {VInt(SomeObjects), VStr(<<ToString(SomeObjects)>>)}
                 THEN VStr(<<"u">>) ELSE VNull] :
          status \in Statuses,
          object_count \in {VInt(0), VStr(<<"0">>), VInt(SomeObjects), VStr(<<ToString(SomeObjects)>>)}}

NoCall == [fn |-> "none"]
Call(fn, response, outcome) ==
  [fn |-> fn, response |-> response, context |-> outcome.context, result |-> outcome.result]

NoCache == [exists |-> FALSE]
Cache(age, content) == [exists |-> TRUE, age |-> age, content |-> content]

BulkInit ==
  /\ bk_args \in [multiMarket : BOOLEAN, start_date : {VNull, VStr(<<"d">>)},
                  market_cache_enabled : BOOLEAN, market_cache_max_age_hours : 1..MaxHours]
  /\ bk_cache \in {NoCache} \cup {Cache(age, "cached") : age \in 0..(MaxHours + 1)}
  /\ bk_context = <<>>
  /\ bk_call = NoCall
  /\ bk_polls = 0
  /\ bk_jobs = [job_id |-> VNull, market_job_id |-> VNull]
  /\ bk_files = [products |-> "none", market |-> "none"]
  /\ bk_events = {}
  /\ bk_pc = "export"
  /\ CoreIdle /\ GenIdle /\ MergeIdle /\ IterIdle /\ LoadIdle /\ MainIdle

\* polling.poll(..., step=20, timeout=7200) after a call that did not return
\* True: the exception of the call leaves the run, and so does the timeout
\* after the last call
AfterFailedPoll(outcome) ==
  /\ bk_context' = outcome.context
  /\ bk_polls' = IF outcome.result = False THEN bk_polls + 1 ELSE bk_polls
  /\ bk_pc' = IF outcome.result = False /\ bk_polls + 1 < MaxPolls THEN bk_pc ELSE "raised"

\* lines 257-264 and 304-310: the file of a completed job; the download
\* raises or writes the file
FileOf(context, downloaded) ==
  IF DictGet(context, K_url) = VNull \/ IsZero(DictGetOrNull(context, K_object_count))
  THEN "empty"
  ELSE IF downloaded THEN "downloaded" ELSE "none"

\* lines 238-247: a call of export_jsonl by polling.poll; once it returns
\* True the job id is read and the context of the next poll is created
Submits ==
  /\ bk_pc = "export"
  /\ \E response \in SubmitResponses(1) :
       LET outcome == export_jsonl(response, bk_context)
       IN  /\ bk_call' = Call("export_jsonl", response, outcome)
           /\ IF outcome.result = True
              THEN /\ bk_jobs' = [bk_jobs EXCEPT !.job_id = DictGet(outcome.context, K_job_id)]
                   /\ bk_context' = <<>>
                   /\ bk_polls' = 0
                   /\ bk_pc' = "poll"
              ELSE /\ AfterFailedPoll(outcome)
                   /\ UNCHANGED bk_jobs
  /\ UNCHANGED <<bk_args, bk_cache, bk_files, bk_events>>
  /\ UNCHANGED <<coreVars, genVars, mergeVars, iterVars, loadVars, mainVars>>

\* lines 248-291: a call of get_jsonl_url by polling.poll; once it returns
\* True the products file is written, and in a multi-market run the cached
\* market file is copied or the context of the market export is created
Polls ==
  /\ bk_pc = "poll"
  /\ \E response \in JobResponses, downloaded \in BOOLEAN :
       LET outcome == get_jsonl_url(response, bk_context)
           products_fp == FileOf(outcome.context, downloaded)
       IN  /\ bk_call' = Call("get_jsonl_url", response, outcome)
           /\ IF outcome.result # True
              THEN AfterFailedPoll(outcome) /\ UNCHANGED <<bk_files, bk_events>>
              ELSE IF products_fp = "none"
              THEN /\ bk_pc' = "raised"
                   /\ bk_context' = outcome.context
                   /\ UNCHANGED <<bk_files, bk_events, bk_polls>>
              ELSE IF ~bk_args.multiMarket
              THEN /\ bk_files' = [bk_files EXCEPT !.products = products_fp]
                   /\ bk_pc' = "done"
                   /\ bk_context' = outcome.context
                   /\ UNCHANGED <<bk_events, bk_polls>>
              ELSE IF cached_market_file(bk_args, bk_cache) # VNull
              THEN /\ bk_files' = [products |-> products_fp,
                                   market |-> cached_market_file(bk_args, bk_cache).content]
                   /\ bk_events' = bk_events \cup {"cache_read"}
                   /\ bk_pc' = "done"
                   /\ bk_context' = outcome.context
                   /\ UNCHANGED bk_polls
              ELSE /\ bk_files' = [bk_files EXCEPT !.products = products_fp]
                   /\ bk_context' = <<>>
                   /\ bk_polls' = 0
                   /\ bk_pc' = "market_export"
                   /\ UNCHANGED bk_events
  /\ UNCHANGED <<bk_args, bk_cache, bk_jobs>>
  /\ UNCHANGED <<coreVars, genVars, mergeVars, iterVars, loadVars, mainVars>>

\* lines 291-296: a call of export_market_jsonl by polling.poll
SubmitsMarket ==
  /\ bk_pc = "market_export"
  /\ \E response \in SubmitResponses(2) :
       LET outcome == export_market_jsonl(response, bk_context)
       IN  /\ bk_call' = Call("export_market_jsonl", response, outcome)
           /\ IF outcome.result = True
              THEN /\ bk_jobs' = [bk_jobs EXCEPT
                                    !.market_job_id = DictGet(outcome.context, K_market_job_id)]
                   /\ bk_events' = bk_events \cup {"market_submitted"}
                   /\ bk_context' = <<>>
                   /\ bk_polls' = 0
                   /\ bk_pc' = "market_poll"
              ELSE /\ AfterFailedPoll(outcome)
                   /\ UNCHANGED <<bk_jobs, bk_events>>
  /\ UNCHANGED <<bk_args, bk_cache, bk_files>>
  /\ UNCHANGED <<coreVars, genVars, mergeVars, iterVars, loadVars, mainVars>>

\* lines 297-323: a call of get_jsonl_url for the market job; once it
\* returns True the market file is written, and a downloaded file is copied
\* to the cache when caching is enabled; a copy that fails is logged
PollsMarket ==
  /\ bk_pc = "market_poll"
  /\ \E response \in JobResponses, downloaded \in BOOLEAN, copied \in BOOLEAN :
       LET outcome == get_jsonl_url(response, bk_context)
           market_fp == FileOf(outcome.context, downloaded)
       IN  /\ bk_call' = Call("get_jsonl_url", response, outcome)
           /\ IF outcome.result # True
              THEN AfterFailedPoll(outcome) /\ UNCHANGED <<bk_files, bk_events, bk_cache>>
              ELSE IF market_fp = "none"
              THEN /\ bk_pc' = "raised"
                   /\ bk_context' = outcome.context
                   /\ UNCHANGED <<bk_files, bk_events, bk_polls, bk_cache>>
              ELSE /\ bk_files' = [bk_files EXCEPT !.market = market_fp]
                   /\ bk_pc' = "done"
                   /\ bk_context' = outcome.context
                   /\ IF market_fp = "downloaded" /\ bk_args.market_cache_enabled /\ copied
                      THEN /\ bk_cache' = Cache(0, market_fp)
                           /\ bk_events' = bk_events \cup {"cache_written"}
                      ELSE UNCHANGED <<bk_cache, bk_events>>
                   /\ UNCHANGED bk_polls
  /\ UNCHANGED <<bk_args, bk_jobs>>
  /\ UNCHANGED <<coreVars, genVars, mergeVars, iterVars, loadVars, mainVars>>

BulkNext == Submits \/ Polls \/ SubmitsMarket \/ PollsMarket

SpecBulk == BulkInit /\ [][BulkNext]_vars

\* the job found no objects: the count is zero, as a number or as text
NoObjects(response) == response.objectCount \in {VInt(0), VStr(<<"0">>)}

\* C23: a call of get_jsonl_url returns False while the job is created or
\* running, returns True exactly when the status is COMPLETED, with url and
\* object_count written to the context and url None when the job found no
\* objects, and raises RuntimeError on CANCELED, CANCELING, EXPIRED and
\* FAILED; on a status other than COMPLETED the context stays empty.
C23_PollingStep ==
  (bk_call.fn = "get_jsonl_url" /\ ~bk_call.response.errors) =>
    LET node == bk_call.response
    IN  /\ bk_call.result = False <=> node.status \in {"CREATED", "RUNNING"}
        /\ bk_call.result = True <=> node.status = "COMPLETED"
        /\ bk_call.result = RuntimeError
             <=> node.status \in {"CANCELED", "CANCELING", "EXPIRED", "FAILED"}
        /\ node.status = "COMPLETED" =>
             bk_call.context = <<<<K_url, IF NoObjects(node) THEN VNull ELSE node.url>>,
                                 <<K_object_count, node.objectCount>>>>
        /\ node.status # "COMPLETED" => bk_call.context = <<>>

\* the job of the products was found running, then completed with no
\* object, and the empty products file was written
C23_Witness ==
  /\ bk_pc = "done" /\ ~bk_args.multiMarket
  /\ bk_polls = 1
  /\ bk_call.fn = "get_jsonl_url" /\ bk_call.result = True
  /\ bk_call.response.objectCount = VStr(<<"0">>)
  /\ DictGet(bk_call.context, K_url) = VNull
  /\ bk_files.products = "empty"

\* the canceling job of the products made the run raise
CancelingRaises ==
  /\ bk_pc = "raised"
  /\ bk_call.fn = "get_jsonl_url" /\ ~bk_call.response.errors
  /\ bk_call.response.status = "CANCELING"

\* the job was accepted
Accepted(response) == ~response.errors /\ response.bulkOperation # VNull

\* C24: a call of export_jsonl returns True and stores the job id in the
\* context when the job was accepted, and returns False and stores nothing
\* on every other response.
C24_SubmissionReturns ==
  bk_call.fn = "export_jsonl" =>
    IF Accepted(bk_call.response)
    THEN /\ bk_call.result = True
         /\ bk_call.context = <<<<K_job_id, JobId(1)>>>>
    ELSE /\ bk_call.result = False
         /\ bk_call.context = <<>>

\* a call of export_jsonl returns True and stores the job id exactly when
\* the job was accepted, returns False when another operation is under way
\* and raises RuntimeError on an error response and on a job rejected for
\* another reason
SubmissionRaises ==
  bk_call.fn = "export_jsonl" =>
    /\ bk_call.result = True <=> Accepted(bk_call.response)
    /\ bk_call.context = IF Accepted(bk_call.response)
                         THEN <<<<K_job_id, JobId(1)>>>> ELSE <<>>
    /\ bk_call.result = False
         <=> /\ ~Accepted(bk_call.response) /\ ~bk_call.response.errors
             /\ Contains(bk_call.response.result, S_already_in_progress)

\* the run is a delta feed of several markets with caching enabled and a
\* cache file younger than the maximum age
CacheUsable ==
  /\ bk_args.multiMarket /\ bk_args.start_date # VNull /\ bk_args.market_cache_enabled
  /\ bk_cache.exists
  /\ bk_cache.age < bk_args.market_cache_max_age_hours

\* what a run has done with the market data
MarketPolicy ==
  /\ "cache_read" \in bk_events =>
       CacheUsable /\ bk_events = {"cache_read"} /\ bk_files.market = "cached"
  /\ bk_pc \in {"market_export", "market_poll"} => bk_args.multiMarket /\ ~CacheUsable
  /\ ("market_submitted" \in bk_events /\ "cache_written" \notin bk_events) => ~CacheUsable
  /\ (bk_pc = "done" /\ bk_args.multiMarket) =>
       ("cache_read" \in bk_events) # ("market_submitted" \in bk_events)
  /\ ~bk_args.multiMarket => bk_events = {} /\ bk_files.market = "none"
  /\ bk_args.start_date = VNull => "cache_read" \notin bk_events
  /\ "cache_written" \in bk_events =>
       /\ bk_args.market_cache_enabled /\ "market_submitted" \in bk_events
       /\ bk_files.market = "downloaded" /\ bk_cache = Cache(0, "downloaded")

\* a step that changes the cache file
CacheOverwritten ==
  bk_cache' # bk_cache =>
    /\ bk_args.market_cache_enabled /\ bk_pc = "market_poll"
    /\ bk_files'.market = "downloaded" /\ bk_cache' = Cache(0, "downloaded")

\* C27: a multi-market run copies the cached market data only when it is a
\* delta feed with caching enabled and a cache file younger than the maximum
\* age; every other multi-market run submits a market export; the cache is
\* overwritten only by a downloaded market export with caching enabled; a
\* full feed never reads the cache.
C27_MarketCachePolicy == []MarketPolicy /\ [][CacheOverwritten]_vars

\* a delta feed ended with the cached market data as its market file
C27_Witness ==
  /\ bk_pc = "done" /\ "cache_read" \in bk_events
  /\ bk_files.market = "cached"

\* a delta feed with an expired cache ended with the cache overwritten
CacheRefreshed ==
  /\ bk_pc = "done" /\ "cache_written" \in bk_events
  /\ bk_args.start_date # VNull

====
